---- MODULE Spec2Model ----
(***************************************************************************)
(* A model of the promotion-analysis backend (src/backend):                *)
(*   - the data-sync / rebuild pipeline: ADLSManager.sync_latest_file,     *)
(*     startup_event, manual_sync_trigger, PromotionAnalysisSystem and     *)
(*     DataLoader.initialize, over a local download directory, a remote    *)
(*     store and a persisted vector index;                                 *)
(*   - MLTool's keyword heuristics (_is_simple_query,                      *)
(*     _detect_target_variable) and MLTool.run;                            *)
(*   - RAGTool.search_with_filters over documents whose metadata is        *)
(*     produced by DataLoader._prepare_metadata.                           *)
(*                                                                         *)
(* Text is modelled as a sequence of one-character strings, so that        *)
(* lower-casing and substring search are computed, not assumed.            *)
(***************************************************************************)
EXTENDS Integers, Sequences, FiniteSets, TLC

VARIABLES
  local,             \* files of the local directory downloads/
  faiss,             \* the vector index persisted at FAISS_INDEX_PATH
  up,                \* the process has completed startup_event
  system,            \* app.py global `system`
  current_csv_path,  \* app.py global `current_csv_path`
  nsys,              \* PromotionAnalysisSystem objects built by this process
  resp,              \* the response of POST /admin/sync-data, in the step after it
  ret,               \* the sync_latest_file call of the last step, if it made one
  lastInit,          \* the DataLoader.initialize call of the last step, if any
  query,             \* the question given to MLTool
  columns,           \* self.df.columns of the MLTool
  cache,             \* utils.cache: cache key -> cached answer
  tool_usage,        \* utils._tool_usage_tracker._last_message
  mlRun,             \* the MLTool.run call of the last step, if any
  detected,          \* what _detect_target_variable returned, once called
  answered,          \* query -> what the last MLTool.run on it returned
  rag_vectorstore,   \* the documents of the index, most similar to the query first
  lastSearch,        \* the search_with_filters call of the last step, if any
  week_cell,         \* the Week cell of a row of the data frame
  quarters,          \* the quarter the table and the document got for that row
  phase,             \* "idle", or "running" while a query is in the agent
  request,           \* the method of the query in the agent: query or query_stream
  toolsRun,          \* the tools invoked since the query began, in order
  lastTool,          \* the tool call of the last step, if any
  answer,            \* what the query returned, once ended
  pc,                \* request -> where its query_stream generator stands
  pending,           \* request -> the tool its agent called and has yet to run
  calls,             \* request -> the tool calls its agent has made
  last_tool_status,  \* request -> query_stream's local last_tool_status
  accumulated_text,  \* request -> query_stream's local accumulated_text
  events,            \* request -> the events its response has carried
  called,            \* request -> the tools its agent's messages called
  invoked,           \* request -> the tools run for it
  writer,            \* the request whose tool recorded the flag's value
  erased             \* requests whose recorded tool was reset before they read it

syncVars == <<local, faiss, up, system, current_csv_path, nsys, resp, ret, lastInit>>
mlVars == <<query, columns, cache, tool_usage, mlRun, detected, answered>>
ragVars == <<rag_vectorstore, lastSearch>>
quarterVars == <<week_cell, quarters>>
agentVars == <<phase, request, toolsRun, lastTool, answer>>
streamVars == <<pc, pending, calls, last_tool_status, accumulated_text, events,
                called, invoked, writer, erased>>
restVars == <<quarterVars, agentVars, streamVars>>
vars == <<syncVars, mlVars, ragVars, restVars>>

----------------------------------------------------------------------------
(* Bounds *)

\* Modification times of the remote store are 1..MaxMtime (0: not there).
MaxMtime == 2
\* Systems one process builds (startup and rebuilds).
MaxSystems == 2
\* Words of a question.
MaxWords == 2
\* Documents in the vector index.
MaxDocs == 4
\* The k a caller of search_with_filters asks for.
MaxK == 2
\* The largest number a numeric Week cell holds.
MaxWeekNumber == 60
\* Calls of execute_sql that raise before one returns.
MaxFailing == 6
\* Tool calls the agent makes for one query.
MaxToolCalls == 2
\* Tool calls the agents of the streamed requests make between them.
MaxStreamCalls == 2
\* Words of a question asked of Semantic_Search.
MaxMentions == 3

----------------------------------------------------------------------------
(* File names.  A remote path is a directory, a stem and an extension; the *)
(* local name of a file is its basename (stem and extension).              *)

NoName == [stem |-> "", ext |-> ""]
NoPath == [dir |-> "", stem |-> "", ext |-> "", is_directory |-> FALSE]

RPath(d, s, e) == [dir |-> d, stem |-> s, ext |-> e, is_directory |-> FALSE]

\* What get_paths can list, in the order the store lists it.
RemoteOrder ==
  << RPath("promo", "p2", "csv"),
     RPath("promo", "part0", "csv"),
     RPath("promo", "readme", "txt") >>

RemotePaths == {RemoteOrder[i] : i \in 1..Len(RemoteOrder)}

\* A state of the remote store: path -> last_modified (0 = not there).
Stores == [RemotePaths -> 0..MaxMtime]

\* os.path.basename: the directory part is dropped.
basename(p) == [stem |-> p.stem, ext |-> p.ext]

\* str.lower on an extension.
lower_ext(e) == IF e = "CSV" THEN "csv" ELSE IF e = "TXT" THEN "txt" ELSE e

\* The hardcoded default of startup_event.
DefaultCsvPath == [stem |-> "part0", ext |-> "csv"]

\* A local file: its name, the remote path its bytes came from, and whether
\* all of the bytes arrived.
NoFile == [name |-> NoName, src |-> NoPath, complete |-> FALSE]

LocalFile(n, p, c) == [name |-> n, src |-> p, complete |-> c]

exists(dir, n) == \E f \in dir : f.name = n

file_at(dir, n) == IF exists(dir, n) THEN CHOOSE f \in dir : f.name = n ELSE NoFile

\* glob.glob(os.path.join(local_dir, "*.csv")): fnmatch is case-sensitive on
\* POSIX, so an upper-case extension is not matched.
glob_csv(dir) == {f \in dir : f.name.ext = "csv"}

----------------------------------------------------------------------------
(* ADLSManager *)

RECURSIVE sort_newest_first(_)
\* list.sort(key=last_modified, reverse=True): a stable sort, so entries of
\* equal time keep their listing order.
sort_newest_first(s) ==
  IF s = <<>> THEN <<>>
  ELSE LET top == CHOOSE t \in {s[i].last_modified : i \in 1..Len(s)} :
                    \A i \in 1..Len(s) : s[i].last_modified <= t
           k   == CHOOSE i \in 1..Len(s) :
                    /\ s[i].last_modified = top
                    /\ \A j \in 1..(i-1) : s[j].last_modified # top
       IN <<s[k]>> \o sort_newest_first(SubSeq(s, 1, k-1) \o SubSeq(s, k+1, Len(s)))

\* list_csv_files: [] when the listing raises; otherwise the non-directory
\* entries whose lower-cased name ends in .csv, newest first.
list_csv_files(listOk, store) ==
  IF ~listOk THEN <<>>
  ELSE LET listed == SelectSeq(RemoteOrder, LAMBDA p : store[p] > 0)
           csvs   == SelectSeq(listed,
                       LAMBDA p : ~p.is_directory /\ lower_ext(p.ext) = "csv")
       IN sort_newest_first([i \in 1..Len(csvs) |->
                               [name |-> csvs[i], last_modified |-> store[csvs[i]]]])

\* Everything list_csv_files can return.
Listings == {list_csv_files(ok, st) : ok \in BOOLEAN, st \in Stores}

\* Where a handler can fail.  "refused": the store's download call raises
\* before the local file is opened; "broken": the local file is opened for
\* writing and readinto raises; the others are steps of the rebuild.
Failures == {"none", "refused", "broken", "load_csv", "create_embeddings", "agent"}

\* download_file
download_file(p, fail, dir) ==
  LET n    == basename(p)
      rest == {f \in dir : f.name # n}
  IN CASE fail = "refused" -> [raised |-> TRUE, path |-> NoName, dir |-> dir]
       [] fail = "broken"  -> [raised |-> TRUE, path |-> NoName,
                               dir |-> rest \cup {LocalFile(n, p, FALSE)}]
       [] OTHER            -> [raised |-> FALSE, path |-> n,
                               dir |-> rest \cup {LocalFile(n, p, TRUE)}]

\* The record of a sync_latest_file call: what it was given, what it returned
\* (path, is_new) or that it raised, the directory it left, and the files
\* os.remove failed on (logged, and the sync goes on).
SyncResult(connected, latest, before, after, path, is_new, raised, unremoved) ==
  [called |-> TRUE, connected |-> connected, latest |-> latest,
   before |-> before, after |-> after, path |-> path, is_new |-> is_new,
   raised |-> raised, unremoved |-> unremoved]

NoSync ==
  [called |-> FALSE, connected |-> FALSE, latest |-> NoPath, before |-> {},
   after |-> {}, path |-> NoName, is_new |-> FALSE, raised |-> FALSE,
   unremoved |-> {}]

\* sync_latest_file with the check for the local file dropped: the newest
\* remote file is always taken for new.
sync_latest_file_always_new(connected, csv_files, dir, pick, stuck, fail) ==
  IF ~connected
  THEN IF glob_csv(dir) # {}
       THEN SyncResult(connected, NoPath, dir, dir, pick.name, FALSE, FALSE, {})
       ELSE SyncResult(connected, NoPath, dir, dir, NoName, FALSE, FALSE, {})
  ELSE IF csv_files = <<>>
  THEN SyncResult(connected, NoPath, dir, dir, NoName, FALSE, FALSE, {})
  ELSE LET latest_file == csv_files[1].name
           unremoved   == glob_csv(dir) \cap stuck
           cleaned     == dir \ (glob_csv(dir) \ unremoved)
           d           == download_file(latest_file, fail, cleaned)
       IN SyncResult(connected, latest_file, dir, d.dir, d.path, ~d.raised,
                     d.raised, unremoved)

\* sync_latest_file with the clean-up of the old files left out.
sync_latest_file_no_cleanup(connected, csv_files, dir, pick, stuck, fail) ==
  IF ~connected
  THEN IF glob_csv(dir) # {}
       THEN SyncResult(connected, NoPath, dir, dir, pick.name, FALSE, FALSE, {})
       ELSE SyncResult(connected, NoPath, dir, dir, NoName, FALSE, FALSE, {})
  ELSE IF csv_files = <<>>
  THEN SyncResult(connected, NoPath, dir, dir, NoName, FALSE, FALSE, {})
  ELSE LET latest_file     == csv_files[1].name
           latest_filename == basename(latest_file)
       IN IF exists(dir, latest_filename)
          THEN SyncResult(connected, latest_file, dir, dir, latest_filename,
                          FALSE, FALSE, {})
          ELSE LET d == download_file(latest_file, fail, dir)
               IN SyncResult(connected, latest_file, dir, d.dir, d.path,
                             ~d.raised, d.raised, {})

\* sync_latest_file falling back to a local CSV when the listing is empty.
sync_latest_file_local_fallback(connected, csv_files, dir, pick, stuck, fail) ==
  IF ~connected
  THEN IF glob_csv(dir) # {}
       THEN SyncResult(connected, NoPath, dir, dir, pick.name, FALSE, FALSE, {})
       ELSE SyncResult(connected, NoPath, dir, dir, NoName, FALSE, FALSE, {})
  ELSE IF csv_files = <<>>
  THEN IF glob_csv(dir) # {}
       THEN SyncResult(connected, NoPath, dir, dir,
                       (CHOOSE f \in glob_csv(dir) : TRUE).name, FALSE, FALSE, {})
       ELSE SyncResult(connected, NoPath, dir, dir, NoName, FALSE, FALSE, {})
  ELSE LET latest_file     == csv_files[1].name
           latest_filename == basename(latest_file)
       IN IF exists(dir, latest_filename)
          THEN SyncResult(connected, latest_file, dir, dir, latest_filename,
                          FALSE, FALSE, {})
          ELSE LET unremoved == glob_csv(dir) \cap stuck
                   cleaned   == dir \ (glob_csv(dir) \ unremoved)
                   d         == download_file(latest_file, fail, cleaned)
               IN SyncResult(connected, latest_file, dir, d.dir, d.path,
                             ~d.raised, d.raised, unremoved)

\* sync_latest_file cleaning up only once the download has succeeded.
sync_latest_file_download_first(connected, csv_files, dir, pick, stuck, fail) ==
  IF ~connected
  THEN IF glob_csv(dir) # {}
       THEN SyncResult(connected, NoPath, dir, dir, pick.name, FALSE, FALSE, {})
       ELSE SyncResult(connected, NoPath, dir, dir, NoName, FALSE, FALSE, {})
  ELSE IF csv_files = <<>>
  THEN SyncResult(connected, NoPath, dir, dir, NoName, FALSE, FALSE, {})
  ELSE LET latest_file     == csv_files[1].name
           latest_filename == basename(latest_file)
       IN IF exists(dir, latest_filename)
          THEN SyncResult(connected, latest_file, dir, dir, latest_filename,
                          FALSE, FALSE, {})
          ELSE LET unremoved == glob_csv(dir) \cap stuck
                   cleaned   == dir \ (glob_csv(dir) \ unremoved)
                   first     == download_file(latest_file, fail, dir)
                   d         == download_file(latest_file, fail, cleaned)
               IN IF first.raised
                  THEN SyncResult(connected, latest_file, dir, first.dir, NoName,
                                  FALSE, TRUE, {})
                  ELSE SyncResult(connected, latest_file, dir, d.dir, d.path,
                                  TRUE, FALSE, unremoved)

\* sync_latest_file.  csv_files: what list_csv_files returns; pick: the
\* element glob returns first; stuck: the files os.remove fails on.
sync_latest_file(connected, csv_files, dir, pick, stuck, fail) ==
  IF ~connected
  THEN IF glob_csv(dir) # {}
       THEN SyncResult(connected, NoPath, dir, dir, pick.name, FALSE, FALSE, {})
       ELSE SyncResult(connected, NoPath, dir, dir, NoName, FALSE, FALSE, {})
  ELSE IF csv_files = <<>>
  THEN SyncResult(connected, NoPath, dir, dir, NoName, FALSE, FALSE, {})
  ELSE LET latest_file     == csv_files[1].name
           latest_filename == basename(latest_file)
       IN IF exists(dir, latest_filename)
          THEN SyncResult(connected, latest_file, dir, dir, latest_filename,
                          FALSE, FALSE, {})
          ELSE LET unremoved == glob_csv(dir) \cap stuck
                   cleaned   == dir \ (glob_csv(dir) \ unremoved)
                   d         == download_file(latest_file, fail, cleaned)
               IN SyncResult(connected, latest_file, dir, d.dir, d.path,
                             ~d.raised, d.raised, unremoved)

----------------------------------------------------------------------------
(* DataLoader and PromotionAnalysisSystem *)

\* What a table or an index was built from: a local file as it was then.
NoData == NoFile

\* The record of a DataLoader.initialize call.
InitResult(csv, force_rebuild, persisted, table, embedded, loaded, vectorstore) ==
  [called |-> TRUE, csv |-> csv, force_rebuild |-> force_rebuild,
   persisted |-> persisted, table |-> table, embedded |-> embedded,
   loaded |-> loaded, raised |-> (vectorstore = NoData), vectorstore |-> vectorstore]

NoInit ==
  [called |-> FALSE, csv |-> NoFile, force_rebuild |-> FALSE, persisted |-> NoData,
   table |-> NoData, embedded |-> FALSE, loaded |-> FALSE, raised |-> FALSE,
   vectorstore |-> NoData]

\* DataLoader.initialize with force_rebuild not looked at: a persisted index
\* is loaded whenever there is one.
DataLoader_initialize_reuses(csv_path, force_rebuild, dir, index, fail) ==
  LET csv == file_at(dir, csv_path)
  IN IF ~exists(dir, csv_path) \/ fail = "load_csv"
     THEN InitResult(csv, force_rebuild, index, NoData, FALSE, FALSE, NoData)
     ELSE IF index = NoData
          THEN IF fail = "create_embeddings"
               THEN InitResult(csv, force_rebuild, index, csv, FALSE, FALSE, NoData)
               ELSE InitResult(csv, force_rebuild, index, csv, TRUE, FALSE, csv)
          ELSE InitResult(csv, force_rebuild, index, csv, FALSE, TRUE, index)

\* DataLoader.initialize(force_rebuild) on csv_path.  load_csv raises when
\* the file is not there (or cannot be read: fail = "load_csv").  The table
\* is recreated from the file on every call that gets that far; the index is
\* embedded again when forced or when none is persisted, and loaded from
\* disk otherwise.
DataLoader_initialize(csv_path, force_rebuild, dir, index, fail) ==
  LET csv == file_at(dir, csv_path)
  IN IF ~exists(dir, csv_path) \/ fail = "load_csv"
     THEN InitResult(csv, force_rebuild, index, NoData, FALSE, FALSE, NoData)
     ELSE IF force_rebuild \/ index = NoData
          THEN IF fail = "create_embeddings"
               THEN InitResult(csv, force_rebuild, index, csv, FALSE, FALSE, NoData)
               ELSE InitResult(csv, force_rebuild, index, csv, TRUE, FALSE, csv)
          ELSE InitResult(csv, force_rebuild, index, csv, FALSE, TRUE, index)

\* The index on disk after a DataLoader.initialize call: create_embeddings
\* saves it as its last step, nothing else writes it.
index_after(index, r) == IF r.embedded THEN r.vectorstore ELSE index

NoSystem ==
  [id |-> 0, csv_path |-> NoName, force_rebuild |-> FALSE, loader |-> FALSE,
   conn |-> NoData, vectorstore |-> NoData, df |-> NoData, agent |-> FALSE]

\* PromotionAnalysisSystem.__init__
PromotionAnalysisSystem(id, csv_path, force_rebuild) ==
  [id |-> id, csv_path |-> csv_path, force_rebuild |-> force_rebuild,
   loader |-> FALSE, conn |-> NoData, vectorstore |-> NoData, df |-> NoData,
   agent |-> FALSE]

\* PromotionAnalysisSystem.initialize, given the outcome r of its loader's
\* initialize: the components are assigned only when the loader returns, and
\* the agent only when the tools and the agent were created.
System_initialize(sys, r, fail) ==
  IF r.raised
  THEN [sys EXCEPT !.loader = TRUE]
  ELSE [sys EXCEPT !.loader = TRUE, !.conn = r.table,
                   !.vectorstore = r.vectorstore, !.df = r.csv,
                   !.agent = (fail # "agent")]

\* The choices glob may return first.
Picks(dir) == IF glob_csv(dir) = {} THEN {NoFile} ELSE glob_csv(dir)

----------------------------------------------------------------------------
(* Text: a sequence of one-character strings *)

UpperChars == <<"A", "B", "C", "D", "E", "F", "G", "H", "I", "J", "K", "L", "M", "N", "O", "P", "Q", "R", "S", "T", "U", "V", "W", "X", "Y", "Z">>
LowerChars == <<"a", "b", "c", "d", "e", "f", "g", "h", "i", "j", "k", "l", "m", "n", "o", "p", "q", "r", "s", "t", "u", "v", "w", "x", "y", "z">>

\* str.lower, character by character.
lower_char(c) ==
  IF \E i \in 1..Len(UpperChars) : UpperChars[i] = c
  THEN LowerChars[CHOOSE i \in 1..Len(UpperChars) : UpperChars[i] = c]
  ELSE c

lower(text) == [i \in 1..Len(text) |-> lower_char(text[i])]

\* Python's `keyword in text` on strings: keyword occurs as a substring.
contains(text, keyword) ==
  \E i \in 0..(Len(text) - Len(keyword)) :
    \A j \in 1..Len(keyword) : text[i + j] = keyword[j]

\* any(keyword in text for keyword in keywords)
any_keyword_in(keywords, text) ==
  \E i \in 1..Len(keywords) : contains(text, keywords[i])

\* The words questions are made of, and the questions: up to MaxWords words
\* joined by single spaces.
Vocabulary ==
  { <<"P", "r", "e", "d", "i", "c", "t">>,
    <<"w", "h", "a", "t">>,
    <<"w", "o", "u", "l", "d">>,
    <<"T", "y", "p", "i", "c", "a", "l">>,
    <<"l", "i", "k", "e", "l", "y">>,
    <<"v", "a", "l", "u", "e">>,
    <<"u", "p", "l", "i", "f", "t">>,
    <<"R", "O", "I">>,
    <<"p", "r", "o", "f", "i", "t">> }

RECURSIVE join(_)
join(ws) ==
  IF ws = <<>> THEN <<>>
  ELSE IF Len(ws) = 1 THEN ws[1]
  ELSE ws[1] \o <<" ">> \o join(Tail(ws))

Questions == {join(ws) : ws \in UNION {[1..n -> Vocabulary] : n \in 0..MaxWords}}

----------------------------------------------------------------------------
(* MLTool *)

prediction_keywords ==
  << <<"p", "r", "e", "d", "i", "c", "t">>,
     <<"f", "o", "r", "e", "c", "a", "s", "t">>,
     <<"w", "h", "a", "t", " ", "w", "o", "u", "l", "d">>,
     <<"w", "h", "a", "t", " ", "w", "i", "l", "l">>,
     <<"e", "x", "p", "e", "c", "t", "e", "d">> >>

simple_keywords ==
  << <<"a", "v", "e", "r", "a", "g", "e">>,
     <<"m", "e", "a", "n">>,
     <<"t", "y", "p", "i", "c", "a", "l">>,
     <<"u", "s", "u", "a", "l">>,
     <<"n", "o", "r", "m", "a", "l">>,
     <<"s", "i", "m", "i", "l", "a", "r", " ", "t", "o">>,
     <<"l", "i", "k", "e">>,
     <<"c", "o", "m", "p", "a", "r", "a", "b", "l", "e">>,
     <<"h", "i", "s", "t", "o", "r", "i", "c", "a", "l">> >>

\* _is_simple_query with the question not lower-cased.
is_simple_query_case_sensitive(q) ==
  IF any_keyword_in(prediction_keywords, q)
  THEN FALSE
  ELSE any_keyword_in(simple_keywords, q)

\* _is_simple_query with the prediction keywords not looked at first.
is_simple_query_simple_first(q) ==
  LET query_lower == lower(q)
  IN any_keyword_in(simple_keywords, query_lower)

\* _is_simple_query
is_simple_query(q) ==
  LET query_lower == lower(q)
  IN IF any_keyword_in(prediction_keywords, query_lower)
     THEN FALSE
     ELSE any_keyword_in(simple_keywords, query_lower)

None == "<None>"

target_preferences ==
  << [keywords |-> << <<"v", "a", "l", "u", "e", " ", "u", "p", "l", "i", "f", "t">>,
                      <<"v", "a", "l", "u", "e", "_", "u", "p", "l", "i", "f", "t">> >>,
      columns  |-> << "Actual_Promo_Sales_Value_Uplift_%",
                      "Planned_Promo_Sales_Value_Uplift_%",
                      "Actual_Promo_Sales_Value_Uplift_PromoID_%" >>],
     [keywords |-> << <<"v", "o", "l", "u", "m", "e", " ", "u", "p", "l", "i", "f", "t">>,
                      <<"v", "o", "l", "u", "m", "e", "_", "u", "p", "l", "i", "f", "t">> >>,
      columns  |-> << "Actual_Promo_Sales_Volume_Uplift",
                      "Planned_Promo_Sales_Volume_Uplift" >>],
     [keywords |-> << <<"r", "o", "i">> >>,
      columns  |-> << "ROI%", "ROI%_PromoID", "Planned_ROI%" >>],
     [keywords |-> << <<"g", "r", "o", "s", "s", " ", "p", "r", "o", "f", "i", "t">>,
                      <<"p", "r", "o", "f", "i", "t">> >>,
      columns  |-> << "Gross_Profit", "Planned_Gross_Profit" >>],
     [keywords |-> << <<"s", "a", "l", "e", "s">> >>,
      columns  |-> << "Predicted_Sales", "Sales_Value", "Actual_Sales_Value" >>] >>

fallback_order ==
  << "Actual_Promo_Sales_Value_Uplift_%",
     "Actual_Promo_Sales_Volume_Uplift",
     "ROI%",
     "Predicted_Sales" >>

\* for column in cols: if column in self.df.columns: return column
first_present(cols, present) ==
  IF \E i \in 1..Len(cols) : cols[i] \in present
  THEN cols[CHOOSE i \in 1..Len(cols) :
              cols[i] \in present /\ \A j \in 1..(i-1) : cols[j] \notin present]
  ELSE None

RECURSIVE scan_preferences(_, _, _)
\* The loop over target_preferences from group g on: the first group with a
\* keyword in the question and a column in the data returns that column.
scan_preferences(g, query_lower, present) ==
  IF g > Len(target_preferences) THEN None
  ELSE IF /\ any_keyword_in(target_preferences[g].keywords, query_lower)
          /\ first_present(target_preferences[g].columns, present) # None
       THEN first_present(target_preferences[g].columns, present)
       ELSE scan_preferences(g + 1, query_lower, present)

\* _detect_target_variable taking the first column of the first group the
\* question matches, present in the data or not.
detect_target_variable_unchecked(q, present) ==
  LET query_lower == lower(q)
      matched == {g \in 1..Len(target_preferences) :
                    any_keyword_in(target_preferences[g].keywords, query_lower)}
  IN IF matched # {}
     THEN target_preferences[CHOOSE g \in matched : \A h \in matched : g <= h].columns[1]
     ELSE first_present(fallback_order, present)

\* _detect_target_variable
detect_target_variable(q, present) ==
  LET query_lower == lower(q)
      preferred   == scan_preferences(1, query_lower, present)
  IN IF preferred # None THEN preferred ELSE first_present(fallback_order, present)

\* The columns the data may have.
DataColumns ==
  { "Actual_Promo_Sales_Value_Uplift_%", "Planned_Promo_Sales_Value_Uplift_%",
    "ROI%", "Gross_Profit" }

\* Config.ML_CACHE_ENABLED
ML_CACHE_ENABLED == TRUE

\* generate_cache_key with the arguments lower-cased.
generate_cache_key_lowercased(func_name, args) == <<func_name, lower(args)>>

\* generate_cache_key: an MD5 digest of the function name and the arguments,
\* taken to be free of collisions.
generate_cache_key(func_name, args) == <<func_name, args>>

\* What can go wrong in MLTool.run: the model call of _extract_scenario or of
\* _statistical_prediction raises, FLAML is not installed, training raises.
MLFailures == {"none", "extract_scenario", "analysis", "flaml_missing", "training"}

\* A text MLTool.run returns and the data frame it was computed from, if
\* from any.
Answer(text, data) == [text |-> text, data |-> data]
NoAnswer == Answer(None, NoName)

NoRun ==
  [called |-> FALSE, hit |-> FALSE, classified |-> FALSE, is_simple |-> FALSE,
   target_var |-> None, path |-> "none", trained |-> FALSE, result |-> NoAnswer]

\* _statistical_prediction: the text it returns; "raised" when the model
\* call raises.
statistical_prediction(fail) ==
  IF fail = "analysis" THEN "raised" ELSE "STATISTICAL ANALYSIS"

\* _ml_prediction: ImportError and any other exception are turned into text.
ml_prediction(fail) ==
  CASE fail = "flaml_missing" -> "Error: AutoML library (FLAML) not installed."
    [] fail = "training" ->
         "Error during ML training. Falling back to statistical analysis..."
    [] OTHER -> "ML PREDICTION RESULTS"

\* The key of MLTool.run.
ml_cache_key(q) == generate_cache_key("ml_prediction", q)

\* MLTool.run training a model for every question that is not simple.
MLTool_run_without_target(q, present, data, found, fail) ==
  LET cache_key == ml_cache_key(q)
      is_simple == is_simple_query(q)
      target    == IF is_simple THEN None ELSE detect_target_variable(q, present)
      path      == IF is_simple THEN "statistical" ELSE "ml"
      text      == IF path = "statistical"
                   THEN statistical_prediction(fail)
                   ELSE ml_prediction(fail)
      from_data == text \in {"STATISTICAL ANALYSIS", "ML PREDICTION RESULTS"}
  IN IF ML_CACHE_ENABLED /\ cache_key \in DOMAIN found
     THEN [NoRun EXCEPT !.called = TRUE, !.hit = TRUE, !.path = "cache",
                        !.result = found[cache_key]]
     ELSE IF fail = "extract_scenario"
     THEN [NoRun EXCEPT !.called = TRUE,
                        !.result = Answer("Error during ML prediction", NoName)]
     ELSE IF text = "raised"
     THEN [called |-> TRUE, hit |-> FALSE, classified |-> TRUE,
           is_simple |-> is_simple, target_var |-> target, path |-> path,
           trained |-> FALSE,
           result |-> Answer("Error during ML prediction", NoName)]
     ELSE [called |-> TRUE, hit |-> FALSE, classified |-> TRUE,
           is_simple |-> is_simple, target_var |-> target, path |-> path,
           trained |-> (text = "ML PREDICTION RESULTS"),
           result |-> Answer(text, IF from_data THEN data ELSE NoName)]

\* MLTool.run: the record of the call (what it returned included) given the
\* data frame (its columns and the file it was read from) and the cache it
\* found.  Only the statistical summary and the trained model come from the
\* data; the error texts do not.
MLTool_run(q, present, data, found, fail) ==
  LET cache_key == ml_cache_key(q)
      is_simple == is_simple_query(q)
      target    == IF is_simple THEN None ELSE detect_target_variable(q, present)
      path      == IF is_simple \/ target = None THEN "statistical" ELSE "ml"
      text      == IF path = "statistical"
                   THEN statistical_prediction(fail)
                   ELSE ml_prediction(fail)
      from_data == text \in {"STATISTICAL ANALYSIS", "ML PREDICTION RESULTS"}
  IN IF ML_CACHE_ENABLED /\ cache_key \in DOMAIN found
     THEN [NoRun EXCEPT !.called = TRUE, !.hit = TRUE, !.path = "cache",
                        !.result = found[cache_key]]
     ELSE IF fail = "extract_scenario"
     THEN [NoRun EXCEPT !.called = TRUE,
                        !.result = Answer("Error during ML prediction", NoName)]
     ELSE IF text = "raised"
     THEN [called |-> TRUE, hit |-> FALSE, classified |-> TRUE,
           is_simple |-> is_simple, target_var |-> target, path |-> path,
           trained |-> FALSE,
           result |-> Answer("Error during ML prediction", NoName)]
     ELSE [called |-> TRUE, hit |-> FALSE, classified |-> TRUE,
           is_simple |-> is_simple, target_var |-> target, path |-> path,
           trained |-> (text = "ML PREDICTION RESULTS"),
           result |-> Answer(text, IF from_data THEN data ELSE NoName)]

\* cache.set storing the new entry alone.
cache_after_evicting(found, q, r) ==
  IF ML_CACHE_ENABLED /\ ~r.hit /\ r.result.text # "Error during ML prediction"
  THEN (ml_cache_key(q) :> r.result)
  ELSE found

\* The cache after the call: the result is stored unless the call ended in
\* the except clause or answered from the cache.
cache_after(found, q, r) ==
  IF ML_CACHE_ENABLED /\ ~r.hit /\ r.result.text # "Error during ML prediction"
  THEN [k \in DOMAIN found \cup {ml_cache_key(q)} |->
          IF k = ml_cache_key(q) THEN r.result ELSE found[k]]
  ELSE found

\* MLTool.run(q) recording its usage after the cache was looked at.
ml_run_step_record_late(q, present, data, fail) ==
  LET r == MLTool_run(q, present, data, cache, fail)
  IN /\ tool_usage' = IF r.hit THEN tool_usage ELSE "ML TOOL USED"
     /\ mlRun' = r
     /\ cache' = cache_after(cache, q, r)
     /\ answered' = [k \in DOMAIN answered \cup {q} |->
                       IF k = q THEN r.result ELSE answered[k]]

\* MLTool.run(q) as a step: the usage is recorded first, the answer is cached
\* last.
ml_run_step(q, present, data, fail) ==
  LET r == MLTool_run(q, present, data, cache, fail)
  IN /\ tool_usage' = "ML TOOL USED"
     /\ mlRun' = r
     /\ cache' = cache_after(cache, q, r)
     /\ answered' = [k \in DOMAIN answered \cup {q} |->
                       IF k = q THEN r.result ELSE answered[k]]

DEFAULT_MESSAGE == "INCUBATOR RESPONSE (NO TOOL USED)"

----------------------------------------------------------------------------
(* DataLoader._prepare_metadata and RAGTool.search_with_filters *)

\* A cell of the Week column: NaN, a dd-mm-YYYY date (n its ISO week), a
\* number, or text that is neither.
WeekValue(kind, n) == [kind |-> kind, n |-> n]

\* metadata["Week"]: None or an int.
WeekNone == [none |-> TRUE, n |-> 0]
WeekInt(n) == [none |-> FALSE, n |-> n]

week_number(week_value) ==
  IF week_value.kind \in {"date", "number"} THEN WeekInt(week_value.n) ELSE WeekNone

\* _prepare_metadata with every week from 40 on in Q4.
prepare_metadata_open_q4(row, index) ==
  LET week == week_number(row.Week)
      base == [row_index |-> index, Week |-> week, Region |-> row.Region]
      n    == week.n
  IN IF week.none \/ n = 0 THEN base
     ELSE IF 1 <= n /\ n <= 13 THEN base @@ ("Quarter" :> "Q1")
     ELSE IF 14 <= n /\ n <= 26 THEN base @@ ("Quarter" :> "Q2")
     ELSE IF 27 <= n /\ n <= 39 THEN base @@ ("Quarter" :> "Q3")
     ELSE IF 40 <= n THEN base @@ ("Quarter" :> "Q4")
     ELSE base

\* _prepare_metadata: Quarter is set only for weeks 1..52; Region is None
\* for a missing value.  The date columns and the other text columns are
\* carried like Region and left out.
prepare_metadata(row, index) ==
  LET week == week_number(row.Week)
      base == [row_index |-> index, Week |-> week, Region |-> row.Region]
      n    == week.n
  IN IF week.none \/ n = 0 THEN base
     ELSE IF 1 <= n /\ n <= 13 THEN base @@ ("Quarter" :> "Q1")
     ELSE IF 14 <= n /\ n <= 26 THEN base @@ ("Quarter" :> "Q2")
     ELSE IF 27 <= n /\ n <= 39 THEN base @@ ("Quarter" :> "Q3")
     ELSE IF 40 <= n /\ n <= 52 THEN base @@ ("Quarter" :> "Q4")
     ELSE base

\* Document(page_content=..., metadata=...) of create_embeddings
Document(row, index) == [page_content |-> row, metadata |-> prepare_metadata(row, index)]

\* The rows documents are made of.
Rows ==
  { [Week |-> WeekValue("date", 5),  Region |-> "North"],
    [Week |-> WeekValue("date", 20), Region |-> "North"],
    [Week |-> WeekValue("date", 53), Region |-> "North"],
    [Week |-> WeekValue("nan", 0),   Region |-> "North"],
    [Week |-> WeekValue("date", 5),  Region |-> None] }

\* The indexes: up to MaxDocs documents in the order of their similarity to
\* the query.
Indexes ==
  { [i \in 1..Len(rows) |-> Document(rows[i], i)] :
      rows \in UNION {[1..n -> Rows] : n \in 0..MaxDocs} }

\* Config.TOP_K_RESULTS
TOP_K_RESULTS == 10

\* FAISS.similarity_search(query, k): the k most similar documents, most
\* similar first.
similarity_search(index, k) ==
  SubSeq(index, 1, IF k < Len(index) THEN k ELSE Len(index))

\* The inner loop of search_with_filters: a field the document does not have
\* does not unmatch it.
match(doc, filters) ==
  \A key \in DOMAIN filters :
    ~(key \in DOMAIN doc.metadata /\ doc.metadata[key] # filters[key])

RECURSIVE filter_loop_late_break(_, _, _, _, _)
\* The loop of search_with_filters breaking once more than k are collected.
filter_loop_late_break(all_docs, i, filters, k, filtered_docs) ==
  IF i > Len(all_docs) THEN filtered_docs
  ELSE LET appended == IF match(all_docs[i], filters)
                       THEN Append(filtered_docs, all_docs[i])
                       ELSE filtered_docs
       IN IF Len(appended) > k THEN appended
          ELSE filter_loop_late_break(all_docs, i + 1, filters, k, appended)

RECURSIVE filter_loop(_, _, _, _, _)
\* for doc in all_docs: ... if match: append; if len(filtered_docs) >= k: break
filter_loop(all_docs, i, filters, k, filtered_docs) ==
  IF i > Len(all_docs) THEN filtered_docs
  ELSE LET appended == IF match(all_docs[i], filters)
                       THEN Append(filtered_docs, all_docs[i])
                       ELSE filtered_docs
       IN IF Len(appended) >= k THEN appended
          ELSE filter_loop(all_docs, i + 1, filters, k, appended)

\* The k argument: None or an int.
KArg(given, k) == [given |-> given, k |-> k]
KArgs == {KArg(FALSE, 0)} \cup {KArg(TRUE, k) : k \in 1..MaxK}

\* The filters argument: None, {} or the fields asked for.
Filters ==
  { <<>>,
    ("Quarter" :> "Q1"),
    ("Quarter" :> "Q2"),
    ("Quarter" :> "Q1") @@ ("Region" :> "North") }

SearchResult(filters, k, requested, all_docs, docs) ==
  [called |-> TRUE, filters |-> filters, k |-> k, requested |-> requested,
   all_docs |-> all_docs, docs |-> docs]

NoSearch ==
  [called |-> FALSE, filters |-> <<>>, k |-> 0, requested |-> 0,
   all_docs |-> <<>>, docs |-> <<>>]

\* search_with_filters with the loop breaking late.
search_with_filters_late_break(index, filters, k_arg) ==
  LET k == IF k_arg.given THEN k_arg.k ELSE TOP_K_RESULTS
  IN IF DOMAIN filters # {}
     THEN LET all_docs == similarity_search(index, k * 3)
          IN SearchResult(filters, k, k * 3, all_docs,
                          filter_loop_late_break(all_docs, 1, filters, k, <<>>))
     ELSE LET all_docs == similarity_search(index, k)
          IN SearchResult(filters, k, k, all_docs, all_docs)

\* search_with_filters: the record of the call, what it asked the index for
\* (requested, all_docs) and what it returned (docs).
search_with_filters(index, filters, k_arg) ==
  LET k == IF k_arg.given THEN k_arg.k ELSE TOP_K_RESULTS
  IN IF DOMAIN filters # {}
     THEN LET all_docs == similarity_search(index, k * 3)
          IN SearchResult(filters, k, k * 3, all_docs,
                          filter_loop(all_docs, 1, filters, k, <<>>))
     ELSE LET all_docs == similarity_search(index, k)
          IN SearchResult(filters, k, k, all_docs, all_docs)

----------------------------------------------------------------------------
(* utils.retry_with_backoff and the three tool entry points *)

\* Config.SQL_MAX_RETRIES
SQL_MAX_RETRIES == 5
\* Config.SQL_RETRY_DELAY, in seconds
SQL_RETRY_DELAY == 1

RetryResult(failing, raised, returned, attempts, waits) ==
  [failing |-> failing, raised |-> raised, returned |-> returned,
   attempts |-> attempts, waits |-> waits]

RECURSIVE retry_loop(_, _, _, _, _, _)
\* The while loop of wrapper: the first `failing` calls of func raise, the
\* next one returns.  attempts counts the calls made, waits lists the sleeps.
retry_loop(max_retries, delay, retries, failing, attempts, waits) ==
  IF retries < max_retries
  THEN IF attempts + 1 > failing
       THEN RetryResult(failing, FALSE, "result", attempts + 1, waits)
       ELSE IF retries + 1 >= max_retries
            THEN RetryResult(failing, TRUE, None, attempts + 1, waits)
            ELSE retry_loop(max_retries, delay, retries + 1, failing, attempts + 1,
                            Append(waits, delay * 2 ^ retries))
  ELSE RetryResult(failing, FALSE, None, attempts, waits)

\* retry_with_backoff allowing one attempt more.
retry_with_backoff_one_more(failing) ==
  retry_loop(SQL_MAX_RETRIES + 1, SQL_RETRY_DELAY, 0, failing, 0, <<>>)

\* retry_with_backoff() as it decorates execute_sql.
retry_with_backoff(failing) ==
  retry_loop(SQL_MAX_RETRIES, SQL_RETRY_DELAY, 0, failing, 0, <<>>)

\* What a tool's run gave: raised is whether an exception left run.
ToolCall(tool, raised, text, sql) ==
  [called |-> TRUE, tool |-> tool, raised |-> raised, text |-> text, sql |-> sql]

NoRetry == RetryResult(0, FALSE, None, 0, <<>>)
NoToolCall ==
  [called |-> FALSE, tool |-> None, raised |-> FALSE, text |-> None, sql |-> NoRetry]

\* The body of SQLTool.run inside its try: generate_sql (the model call may
\* raise), execute_sql under retry, the rows formatted.
SQLTool_body(generate_fails, failing, rows) ==
  IF generate_fails
  THEN ToolCall("SQL", TRUE, None, NoRetry)
  ELSE LET x == retry_with_backoff(failing)
       IN IF x.raised THEN ToolCall("SQL", TRUE, None, x)
          ELSE IF x.returned = None THEN ToolCall("SQL", TRUE, None, x)
          ELSE ToolCall("SQL", FALSE,
                        IF rows = 0 THEN "No results found." ELSE "Results (n rows)", x)

\* SQLTool.run without its except clause.
SQLTool_run_uncaught(generate_fails, failing, rows) ==
  SQLTool_body(generate_fails, failing, rows)

\* SQLTool.run: any exception of the body becomes the error text.
SQLTool_run(generate_fails, failing, rows) ==
  LET b == SQLTool_body(generate_fails, failing, rows)
  IN IF b.raised
     THEN ToolCall("SQL", FALSE, "Error executing SQL query", b.sql)
     ELSE b

\* The quarters dictionary of parse_date_filter, in its order.
quarter_patterns ==
  << [key |-> <<"q", "1">>, value |-> "Q1"],
     [key |-> <<"q", "u", "a", "r", "t", "e", "r", " ", "1">>, value |-> "Q1"],
     [key |-> <<"f", "i", "r", "s", "t", " ", "q", "u", "a", "r", "t", "e", "r">>, value |-> "Q1"],
     [key |-> <<"q", "2">>, value |-> "Q2"],
     [key |-> <<"q", "u", "a", "r", "t", "e", "r", " ", "2">>, value |-> "Q2"],
     [key |-> <<"s", "e", "c", "o", "n", "d", " ", "q", "u", "a", "r", "t", "e", "r">>, value |-> "Q2"],
     [key |-> <<"q", "3">>, value |-> "Q3"],
     [key |-> <<"q", "u", "a", "r", "t", "e", "r", " ", "3">>, value |-> "Q3"],
     [key |-> <<"t", "h", "i", "r", "d", " ", "q", "u", "a", "r", "t", "e", "r">>, value |-> "Q3"],
     [key |-> <<"q", "4">>, value |-> "Q4"],
     [key |-> <<"q", "u", "a", "r", "t", "e", "r", " ", "4">>, value |-> "Q4"],
     [key |-> <<"f", "o", "u", "r", "t", "h", " ", "q", "u", "a", "r", "t", "e", "r">>, value |-> "Q4"] >>

\* The first place keyword occurs at in text (0: nowhere).
find(text, keyword) ==
  IF contains(text, keyword)
  THEN 1 + CHOOSE i \in 0..(Len(text) - Len(keyword)) :
             /\ \A j \in 1..Len(keyword) : text[i + j] = keyword[j]
             /\ \A h \in 0..(i - 1) : \E j \in 1..Len(keyword) : text[h + j] # keyword[j]
  ELSE 0

\* parse_date_filter taking the pattern that occurs first in the query.
parse_date_filter_first_mention(q) ==
  LET query_lower == lower(q)
      found == {i \in 1..Len(quarter_patterns) :
                  contains(query_lower, quarter_patterns[i].key)}
      first == CHOOSE i \in found :
                 \A j \in found : find(query_lower, quarter_patterns[i].key)
                                    <= find(query_lower, quarter_patterns[j].key)
  IN IF found = {} THEN <<>>
     ELSE ("Quarter" :> quarter_patterns[first].value)

\* parse_date_filter: the value of the first pattern, in the order of the
\* dictionary, that occurs in the lower-cased query.
parse_date_filter(q) ==
  LET query_lower == lower(q)
      found == {i \in 1..Len(quarter_patterns) :
                  contains(query_lower, quarter_patterns[i].key)}
  IN IF found = {} THEN <<>>
     ELSE ("Quarter" :> quarter_patterns[CHOOSE i \in found : \A j \in found : i <= j].value)

RAGFailures == {"none", "search", "interpretation"}

\* The body of RAGTool.run inside its try: the search (the embedding call
\* may raise), then the model's interpretation of the results (may raise).
RAGTool_body(q, index, fail) ==
  LET filters == parse_date_filter(q)
      docs    == search_with_filters(index, filters, KArg(FALSE, 0)).docs
  IN IF fail = "search" THEN ToolCall("RAG", TRUE, None, NoRetry)
     ELSE IF docs = <<>>
     THEN ToolCall("RAG", FALSE, "No relevant results found for your query.", NoRetry)
     ELSE IF fail = "interpretation" THEN ToolCall("RAG", TRUE, None, NoRetry)
     ELSE ToolCall("RAG", FALSE, "interpretation", NoRetry)

\* RAGTool.run: any exception of the body becomes the error text.
RAGTool_run(q, index, fail) ==
  LET b == RAGTool_body(q, index, fail)
  IN IF b.raised
     THEN ToolCall("RAG", FALSE, "Error during semantic search", NoRetry)
     ELSE b

----------------------------------------------------------------------------
(* PromotionAnalysisAgent.query *)

\* What query gave: failed is whether the agent's run raised, raised whether
\* an exception left query.
AgentResult(failed, raised, output, intermediate_steps) ==
  [returned |-> TRUE, failed |-> failed, raised |-> raised, output |-> output,
   intermediate_steps |-> intermediate_steps]

NoResult ==
  [returned |-> FALSE, failed |-> FALSE, raised |-> FALSE, output |-> None,
   intermediate_steps |-> <<>>]

\* What agent.invoke gives: a last message with content, or nothing usable,
\* for which str(graph_result) is taken.
GraphResults == {"content", "empty"}

\* The body of query inside its try, from agent.invoke on.
agent_query_body(invoke_fails, graph) ==
  IF invoke_fails
  THEN AgentResult(TRUE, TRUE, None, <<>>)
  ELSE AgentResult(FALSE, FALSE,
                   IF graph = "content" THEN "final answer" ELSE "str(graph_result)",
                   <<>>)

\* query without its except clause.
agent_query_uncaught(invoke_fails, graph) == agent_query_body(invoke_fails, graph)

\* query: what it returns when agent.invoke ends.
agent_query(invoke_fails, graph) ==
  LET b == agent_query_body(invoke_fails, graph)
  IN IF b.raised
     THEN AgentResult(TRUE, FALSE, "Error: Agent execution error", <<>>)
     ELSE b

\* query_stream: the last event it yields when the agent's run ends.
agent_query_stream(stream_fails, graph) ==
  AgentResult(stream_fails, FALSE, IF stream_fails THEN "error" ELSE "done", <<>>)

\* The message a tool records.
usage_message(tool) ==
  CASE tool = "SQL" -> "SQL TOOL USED"
    [] tool = "RAG" -> "RAG TOOL USED"
    [] tool = "ML"  -> "ML TOOL USED"

InitAgentVars ==
  /\ phase = "idle"
  /\ request = None
  /\ toolsRun = <<>>
  /\ lastTool = NoToolCall
  /\ answer = NoResult

----------------------------------------------------------------------------
(* PromotionAnalysisAgent.query_stream and POST /query/stream *)

\* The requests in flight.
Requests == {"A", "B"}

\* The tools the agent of a streamed request calls.
StreamTools == {"SQL", "ML"}

\* The start of the text SQLTool.run returns for a non-empty result.
ResultsPrefix == <<"R", "e", "s", "u", "l", "t", "s", " ", "(">>

\* The content of the agent's AI messages: none, two answers of which one
\* extends the other, and an echo of the SQL tool's output.
Contents == {<<>>, <<"a">>, <<"a", "b">>, ResultsPrefix \o <<"1">>}

\* An event of the response: status and error carry a message, content and
\* done carry content.
Event(type, message, content) ==
  [type |-> type, message |-> message, content |-> content]

\* query_stream's status_messages.get(current_status, "Processing...")
status_messages(current_status) ==
  CASE current_status = "SQL TOOL USED" -> "Converting natural language to SQL..."
    [] current_status = "RAG TOOL USED" -> "Semantic search in progress..."
    [] current_status = "ML TOOL USED" ->
         "Running appropriate algorithm and statistical analysis to perform the prediction..."
    [] OTHER -> "Processing..."

\* query_stream's tool_status_map.get(tool_name, "Processing...")
tool_status_map(tool_name) ==
  CASE tool_name = "SQL" -> "Converting natural language to SQL..."
    [] tool_name = "RAG" -> "Semantic search in progress..."
    [] tool_name = "ML" ->
         "Running appropriate algorithm and statistical analysis to perform the prediction..."
    [] OTHER -> "Processing..."

\* A flag kept per request: what the request's own tools recorded.
get_tool_usage_status_of_request(r) ==
  IF writer = r THEN tool_usage ELSE DEFAULT_MESSAGE

\* get_tool_usage_status() called by the generator of request r: the one
\* tracker of the process.
get_tool_usage_status(r) == tool_usage

\* The check at the top of the loop over astream: the status event, if any,
\* and last_tool_status afterwards.
check_tool_status(r) ==
  LET current_status == get_tool_usage_status(r)
  IN IF current_status # last_tool_status[r] /\ current_status # DEFAULT_MESSAGE
     THEN [last |-> current_status,
           events |-> <<Event("status", status_messages(current_status), <<>>)>>]
     ELSE [last |-> last_tool_status[r], events |-> <<>>]

\* str.startswith
startswith(text, prefix) ==
  /\ Len(prefix) <= Len(text)
  /\ SubSeq(text, 1, Len(prefix)) = prefix

\* The content of an AI message: accumulated_text and the content event.
extract_content(accumulated, content) ==
  IF content # <<>> /\ content # accumulated /\ ~startswith(content, ResultsPrefix)
  THEN LET new_content == IF accumulated # <<>>
                          THEN SubSeq(content, Len(accumulated) + 1, Len(content))
                          ELSE content
       IN [accumulated |-> content,
           events |-> IF new_content # <<>>
                      THEN <<Event("content", "", new_content)>>
                      ELSE <<>>]
  ELSE [accumulated |-> accumulated, events |-> <<>>]

\* query_stream's except giving the error event and the final event as well.
query_stream_except_then_done(evs, accumulated) ==
  evs \o <<Event("error", "Agent execution error", <<>>),
           Event("done", "", accumulated)>>

\* query_stream's except Exception: the error event, the generator's last.
query_stream_except(evs, accumulated) ==
  Append(evs, Event("error", "Agent execution error", <<>>))

InitStreamVars ==
  /\ pc = [r \in Requests |-> "idle"]
  /\ pending = [r \in Requests |-> None]
  /\ calls = [r \in Requests |-> 0]
  /\ last_tool_status = [r \in Requests |-> None]
  /\ accumulated_text = [r \in Requests |-> <<>>]
  /\ events = [r \in Requests |-> <<>>]
  /\ called = [r \in Requests |-> {}]
  /\ invoked = [r \in Requests |-> {}]
  /\ writer = None
  /\ erased = {}

----------------------------------------------------------------------------
(* DataLoader.create_duckdb: the Quarter column *)

\* The largest ISO week number of a date.
LastIsoWeek == 53

\* The Week cells a data frame can hold (see WeekValue).
WeekValues ==
  {WeekValue("nan", 0), WeekValue("text", 0)}
    \cup {WeekValue("date", n) : n \in 1..LastIsoWeek}
    \cup {WeekValue("number", n) : n \in 0..MaxWeekNumber}

\* The UPDATE ... SET Quarter = CASE ... of create_duckdb for one row.
\* STRPTIME raises for a cell that is not a dd-mm-YYYY string and gives NULL
\* for NULL; EXTRACT(WEEK ...) is the ISO week; NULL is in no range.
table_quarter(cell) ==
  IF cell.kind \in {"number", "text"}
  THEN [raised |-> TRUE, Quarter |-> None]
  ELSE IF cell.kind = "nan"
  THEN [raised |-> FALSE, Quarter |-> "Unknown"]
  ELSE [raised |-> FALSE,
        Quarter |-> CASE 1 <= cell.n /\ cell.n <= 13 -> "Q1"
                      [] 14 <= cell.n /\ cell.n <= 26 -> "Q2"
                      [] 27 <= cell.n /\ cell.n <= 39 -> "Q3"
                      [] 40 <= cell.n /\ cell.n <= 52 -> "Q4"
                      [] OTHER -> "Unknown"]

NoQuarters ==
  [called |-> FALSE, table |-> [raised |-> FALSE, Quarter |-> None],
   metadata |-> <<>>]

InitQuarterVars ==
  /\ week_cell = WeekValue("nan", 0)
  /\ quarters = NoQuarters

\* The variables of the later sections as they are before anything is asked.
InitRest == InitQuarterVars /\ InitAgentVars /\ InitStreamVars

----------------------------------------------------------------------------
(* app.py *)

NoResp == [code |-> 0, message |-> "", file |-> NoName]

InitSync ==
  /\ local = {}
  /\ faiss = NoData
  /\ up = FALSE
  /\ system = NoSystem
  /\ current_csv_path = NoName
  /\ nsys = 0
  /\ resp = NoResp
  /\ ret = NoSync
  /\ lastInit = NoInit

\* The state of the tools' module before any question.
InitMLVars ==
  /\ query = <<>>
  /\ columns = {}
  /\ cache = <<>>
  /\ tool_usage = DEFAULT_MESSAGE
  /\ mlRun = NoRun
  /\ detected = "unset"
  /\ answered = <<>>

InitRAGVars ==
  /\ rag_vectorstore = <<>>
  /\ lastSearch = NoSearch

InitTools == InitMLVars /\ InitRAGVars /\ InitRest

\* startup_event, for one choice of SKIP_ADLS_SYNC, of the connection, of the
\* remote listing and of what fails.  A startup that raises ends the process:
\* the globals are lost and what was written to disk stays.
startup_event(skip, connected, csv_files, pick, stuck, fail) ==
  LET s    == IF skip
              THEN SyncResult(FALSE, NoPath, local, local, pick.name, FALSE, FALSE, {})
              ELSE sync_latest_file(connected, csv_files, local, pick, stuck, fail)
      path == IF s.path # NoName THEN s.path ELSE DefaultCsvPath
      sys0 == PromotionAnalysisSystem(nsys + 1, path, s.is_new)
      r    == DataLoader_initialize(path, s.is_new, s.after, faiss, fail)
      sys1 == System_initialize(sys0, r, fail)
  IN /\ ~up
     /\ ret' = IF skip THEN NoSync ELSE s
     /\ local' = s.after
     /\ resp' = NoResp
     /\ IF s.raised
        THEN /\ lastInit' = NoInit
             /\ UNCHANGED <<faiss, up, system, current_csv_path, nsys>>
        ELSE /\ lastInit' = r
             /\ faiss' = index_after(faiss, r)
             /\ up' = sys1.agent
             /\ nsys' = IF sys1.agent THEN 1 ELSE 0
             /\ system' = IF sys1.agent THEN sys1 ELSE NoSystem
             /\ current_csv_path' = IF sys1.agent THEN path ELSE NoName

Startup ==
  /\ UNCHANGED <<mlVars, ragVars, restVars>>
  /\ \E skip \in BOOLEAN :
      \E connected \in (IF skip THEN {FALSE} ELSE BOOLEAN) :
        \E csv_files \in (IF connected THEN Listings ELSE {<<>>}),
           pick \in (IF connected THEN {NoFile} ELSE Picks(local)),
           stuck \in (IF connected THEN SUBSET glob_csv(local) ELSE {{}}),
           fail \in Failures :
          startup_event(skip, connected, csv_files, pick, stuck, fail)

\* manual_sync_trigger rebuilding on every sync that finds a file, new or not.
manual_sync_trigger_always_rebuilds(connected, csv_files, pick, stuck, fail) ==
  LET s    == sync_latest_file(connected, csv_files, local, pick, stuck, fail)
      sys0 == PromotionAnalysisSystem(nsys + 1, s.path, TRUE)
      r    == DataLoader_initialize(s.path, TRUE, s.after, faiss, fail)
      sys1 == System_initialize(sys0, r, fail)
  IN /\ up
     /\ nsys < MaxSystems
     /\ ret' = s
     /\ local' = s.after
     /\ IF s.raised \/ s.path = NoName
        THEN /\ resp' = [code |-> 500, message |-> "sync failed", file |-> NoName]
             /\ lastInit' = NoInit
             /\ UNCHANGED <<faiss, system, current_csv_path, nsys>>
        ELSE /\ current_csv_path' = s.path
             /\ system' = sys1
             /\ nsys' = nsys + 1
             /\ lastInit' = r
             /\ faiss' = index_after(faiss, r)
             /\ resp' = IF sys1.agent
                        THEN [code |-> 200,
                              message |-> "New file detected and system rebuilt.",
                              file |-> s.path]
                        ELSE [code |-> 500, message |-> "rebuild failed",
                              file |-> NoName]
     /\ UNCHANGED up

\* manual_sync_trigger (POST /admin/sync-data).
manual_sync_trigger(connected, csv_files, pick, stuck, fail) ==
  LET s    == sync_latest_file(connected, csv_files, local, pick, stuck, fail)
      sys0 == PromotionAnalysisSystem(nsys + 1, s.path, TRUE)
      r    == DataLoader_initialize(s.path, TRUE, s.after, faiss, fail)
      sys1 == System_initialize(sys0, r, fail)
  IN /\ up
     /\ nsys < MaxSystems
     /\ ret' = s
     /\ local' = s.after
     /\ IF s.raised
        THEN /\ resp' = [code |-> 500, message |-> "download failed", file |-> NoName]
             /\ lastInit' = NoInit
             /\ UNCHANGED <<faiss, system, current_csv_path, nsys>>
        ELSE IF s.path = NoName
        THEN /\ resp' = [code |-> 500,
                         message |-> "404: No CSV file found in ADLS or locally.",
                         file |-> NoName]
             /\ lastInit' = NoInit
             /\ UNCHANGED <<faiss, system, current_csv_path, nsys>>
        ELSE IF s.is_new
        THEN /\ current_csv_path' = s.path
             /\ system' = sys1
             /\ nsys' = nsys + 1
             /\ lastInit' = r
             /\ faiss' = index_after(faiss, r)
             /\ resp' = IF sys1.agent
                        THEN [code |-> 200,
                              message |-> "New file detected and system rebuilt.",
                              file |-> s.path]
                        ELSE [code |-> 500, message |-> "rebuild failed",
                              file |-> NoName]
        ELSE /\ resp' = [code |-> 200,
                         message |-> "No new file detected. System remains unchanged.",
                         file |-> current_csv_path]
             /\ lastInit' = NoInit
             /\ UNCHANGED <<faiss, system, current_csv_path, nsys>>
     /\ UNCHANGED up

SyncData ==
  /\ UNCHANGED <<mlVars, ragVars, restVars>>
  /\ \E connected \in BOOLEAN :
      \E csv_files \in (IF connected THEN Listings ELSE {<<>>}),
         pick \in (IF connected THEN {NoFile} ELSE Picks(local)),
         stuck \in (IF connected THEN SUBSET glob_csv(local) ELSE {{}}),
         fail \in Failures :
        manual_sync_trigger(connected, csv_files, pick, stuck, fail)

\* The process ends and is started again: the module-level globals are back
\* to None, the cache is empty and the usage flag at its default; the files
\* on disk stay.
Restart ==
  /\ up
  /\ up' = FALSE
  /\ system' = NoSystem
  /\ current_csv_path' = NoName
  /\ nsys' = 0
  /\ resp' = NoResp
  /\ ret' = NoSync
  /\ lastInit' = NoInit
  /\ cache' = <<>>
  /\ tool_usage' = DEFAULT_MESSAGE
  /\ mlRun' = NoRun
  /\ answered' = <<>>
  /\ UNCHANGED <<local, faiss>>
  /\ UNCHANGED <<query, columns, detected>>
  /\ UNCHANGED <<ragVars, restVars>>

Init == InitSync /\ InitTools

Next == Startup \/ SyncData \/ Restart

Spec == Init /\ [][Next]_vars

----------------------------------------------------------------------------
(* MLTool on one question over one data frame *)

InitML ==
  /\ InitSync
  /\ query \in Questions
  /\ columns \in SUBSET DataColumns
  /\ cache = <<>>
  /\ tool_usage = DEFAULT_MESSAGE
  /\ mlRun = NoRun
  /\ detected = "unset"
  /\ answered = <<>>
  /\ InitRAGVars
  /\ InitRest

\* MLTool.run(query)
MLRun ==
  \E fail \in MLFailures :
    /\ ml_run_step(query, columns, DefaultCsvPath, fail)
    /\ UNCHANGED <<query, columns, detected>>
    /\ UNCHANGED <<syncVars, ragVars, restVars>>

\* _detect_target_variable(query), called on its own.
Detect ==
  /\ detected' = detect_target_variable(query, columns)
  /\ UNCHANGED <<query, columns, cache, tool_usage, mlRun, answered>>
  /\ UNCHANGED <<syncVars, ragVars, restVars>>

NextML == MLRun \/ Detect

SpecML == InitML /\ [][NextML]_vars

----------------------------------------------------------------------------
(* RAGTool.search_with_filters over one index *)

InitRAG ==
  /\ InitSync
  /\ InitMLVars
  /\ rag_vectorstore \in Indexes
  /\ lastSearch = NoSearch
  /\ InitRest

\* search_with_filters(query, filters, k)
Search ==
  \E filters \in Filters, k_arg \in KArgs :
    /\ lastSearch' = search_with_filters(rag_vectorstore, filters, k_arg)
    /\ UNCHANGED rag_vectorstore
    /\ UNCHANGED <<syncVars, mlVars, restVars>>

NextRAG == Search

SpecRAG == InitRAG /\ [][NextRAG]_vars

----------------------------------------------------------------------------
(* MLTool and its cache in the running service *)

\* The questions asked of the service: the same word in two spellings.
CacheQuestions ==
  { <<"P", "r", "e", "d", "i", "c", "t">>,
    <<"p", "r", "e", "d", "i", "c", "t">> }

InitCache ==
  /\ InitSync
  /\ query = <<>>
  /\ columns = DataColumns
  /\ cache = <<>>
  /\ tool_usage = DEFAULT_MESSAGE
  /\ mlRun = NoRun
  /\ detected = "unset"
  /\ answered = <<>>
  /\ InitRAGVars
  /\ InitRest

\* startup_event with remote storage reachable.
CacheStartup ==
  /\ \E csv_files \in Listings, fail \in Failures :
       startup_event(FALSE, TRUE, csv_files, NoFile, {}, fail)
  /\ mlRun' = NoRun
  /\ UNCHANGED <<query, columns, cache, tool_usage, detected, answered>>
  /\ UNCHANGED <<ragVars, restVars>>

\* POST /admin/sync-data with remote storage reachable.
CacheSync ==
  /\ \E csv_files \in Listings, fail \in Failures :
       manual_sync_trigger(TRUE, csv_files, NoFile, {}, fail)
  /\ mlRun' = NoRun
  /\ UNCHANGED <<query, columns, cache, tool_usage, detected, answered>>
  /\ UNCHANGED <<ragVars, restVars>>

\* MLTool.run(q) of the serving system, on the data frame it was built with.
AskML ==
  /\ up
  /\ system.agent
  /\ \E q \in CacheQuestions, fail \in MLFailures :
       /\ query' = q
       /\ ml_run_step(q, columns, system.df.name, fail)
  /\ resp' = NoResp
  /\ ret' = NoSync
  /\ lastInit' = NoInit
  /\ UNCHANGED <<local, faiss, up, system, current_csv_path, nsys>>
  /\ UNCHANGED <<columns, detected>>
  /\ UNCHANGED <<ragVars, restVars>>

NextCache == CacheStartup \/ CacheSync \/ Restart \/ AskML

SpecCache == InitCache /\ [][NextCache]_vars

----------------------------------------------------------------------------
(* One query at a time through the agent and its tools *)

\* The questions the agent hands to its tools.
AgentQuestions ==
  { <<"P", "r", "e", "d", "i", "c", "t">>,
    <<"Q", "1", " ", "R", "O", "I">> }

\* The index of the RAG tool: a Q1 document, a week-53 document, a Q2 one.
AgentIndex ==
  << Document([Week |-> WeekValue("date", 5),  Region |-> "North"], 1),
     Document([Week |-> WeekValue("date", 53), Region |-> "North"], 2),
     Document([Week |-> WeekValue("date", 20), Region |-> "North"], 3) >>

InitAgent ==
  /\ InitSync
  /\ query = <<>>
  /\ columns = DataColumns
  /\ cache = <<>>
  /\ tool_usage = DEFAULT_MESSAGE
  /\ mlRun = NoRun
  /\ detected = "unset"
  /\ answered = <<>>
  /\ rag_vectorstore \in {<<>>, AgentIndex}
  /\ lastSearch = NoSearch
  /\ InitQuarterVars
  /\ InitAgentVars
  /\ InitStreamVars

\* query / query_stream up to the agent's run: reset_tool_usage().
QueryBegin ==
  /\ phase = "idle"
  /\ phase' = "running"
  /\ request' \in {"query", "query_stream"}
  /\ tool_usage' = DEFAULT_MESSAGE
  /\ toolsRun' = <<>>
  /\ lastTool' = NoToolCall
  /\ answer' = NoResult
  /\ mlRun' = NoRun
  /\ UNCHANGED <<query, columns, cache, detected, answered>>
  /\ UNCHANGED <<syncVars, ragVars, quarterVars, streamVars>>

\* The agent calls SQL_Query.
UseSQL ==
  /\ phase = "running"
  /\ Len(toolsRun) < MaxToolCalls
  /\ \E generate_fails \in BOOLEAN, failing \in 0..MaxFailing, rows \in 0..1 :
       lastTool' = SQLTool_run(generate_fails, failing, rows)
  /\ tool_usage' = "SQL TOOL USED"
  /\ toolsRun' = Append(toolsRun, "SQL")
  /\ mlRun' = NoRun
  /\ UNCHANGED <<phase, request, answer>>
  /\ UNCHANGED <<query, columns, cache, detected, answered>>
  /\ UNCHANGED <<syncVars, ragVars, quarterVars, streamVars>>

\* The agent calls Semantic_Search.
UseRAG ==
  /\ phase = "running"
  /\ Len(toolsRun) < MaxToolCalls
  /\ \E q \in AgentQuestions, fail \in RAGFailures :
       /\ query' = q
       /\ lastTool' = RAGTool_run(q, rag_vectorstore, fail)
  /\ tool_usage' = "RAG TOOL USED"
  /\ toolsRun' = Append(toolsRun, "RAG")
  /\ mlRun' = NoRun
  /\ UNCHANGED <<phase, request, answer>>
  /\ UNCHANGED <<columns, cache, detected, answered>>
  /\ UNCHANGED <<syncVars, ragVars, quarterVars, streamVars>>

\* The agent calls ML_Prediction.
UseML ==
  /\ phase = "running"
  /\ Len(toolsRun) < MaxToolCalls
  /\ \E q \in AgentQuestions, fail \in MLFailures :
       /\ query' = q
       /\ ml_run_step(q, columns, DefaultCsvPath, fail)
  /\ lastTool' = ToolCall("ML", FALSE, mlRun'.result.text, NoRetry)
  /\ toolsRun' = Append(toolsRun, "ML")
  /\ UNCHANGED <<phase, request, answer>>
  /\ UNCHANGED <<columns, detected>>
  /\ UNCHANGED <<syncVars, ragVars, quarterVars, streamVars>>

\* The agent's run ends and query / query_stream returns.
QueryEnd ==
  /\ phase = "running"
  /\ phase' = "idle"
  /\ \E fails \in BOOLEAN, graph \in GraphResults :
       answer' = IF request = "query"
                 THEN agent_query(fails, graph)
                 ELSE agent_query_stream(fails, graph)
  /\ lastTool' = NoToolCall
  /\ mlRun' = NoRun
  /\ UNCHANGED <<request, toolsRun>>
  /\ UNCHANGED <<query, columns, cache, tool_usage, detected, answered>>
  /\ UNCHANGED <<syncVars, ragVars, quarterVars, streamVars>>

NextAgent == QueryBegin \/ UseSQL \/ UseRAG \/ UseML \/ QueryEnd

SpecAgent == InitAgent /\ [][NextAgent]_vars

----------------------------------------------------------------------------
(* RAGTool.run on questions that mention quarters *)

FilterVocabulary ==
  { <<"Q", "3">>,
    <<"q", "1">>,
    <<"Q", "u", "a", "r", "t", "e", "r", " ", "2">>,
    <<"f", "o", "u", "r", "t", "h", " ", "q", "u", "a", "r", "t", "e", "r">>,
    <<"p", "r", "o", "m", "o", "t", "i", "o", "n", "s">>,
    <<"s", "i", "m", "i", "l", "a", "r">> }

FilterQuestions ==
  {join(ws) : ws \in UNION {[1..n -> FilterVocabulary] : n \in 0..MaxMentions}}

InitFilter ==
  /\ InitSync
  /\ query \in FilterQuestions
  /\ columns = DataColumns
  /\ cache = <<>>
  /\ tool_usage = DEFAULT_MESSAGE
  /\ mlRun = NoRun
  /\ detected = "unset"
  /\ answered = <<>>
  /\ rag_vectorstore = AgentIndex
  /\ lastSearch = NoSearch
  /\ InitRest

\* RAGTool.run(query): the usage, the filters parsed from the question, the
\* filtered search and the text returned.
SemanticSearch ==
  /\ \E fail \in RAGFailures :
       lastTool' = RAGTool_run(query, rag_vectorstore, fail)
  /\ tool_usage' = "RAG TOOL USED"
  /\ lastSearch' = search_with_filters(rag_vectorstore, parse_date_filter(query),
                                       KArg(FALSE, 0))
  /\ UNCHANGED <<query, columns, cache, mlRun, detected, answered>>
  /\ UNCHANGED <<phase, request, toolsRun, answer>>
  /\ UNCHANGED <<syncVars, rag_vectorstore, quarterVars, streamVars>>

NextFilter == SemanticSearch

SpecFilter == InitFilter /\ [][NextFilter]_vars

----------------------------------------------------------------------------
(* Two POST /query/stream requests on one process *)

StreamFile == LocalFile(DefaultCsvPath, NoPath, TRUE)

\* The system of a process that came up, or whose rebuild stopped before the
\* agent was created.
StreamSystems ==
  {System_initialize(PromotionAnalysisSystem(1, DefaultCsvPath, FALSE),
                     DataLoader_initialize(DefaultCsvPath, FALSE, {StreamFile},
                                           NoData, "none"),
                     fail) : fail \in {"none", "agent"}}

InitStream ==
  /\ local = {StreamFile}
  /\ faiss = StreamFile
  /\ up = TRUE
  /\ system \in StreamSystems
  /\ current_csv_path = DefaultCsvPath
  /\ nsys = 1
  /\ resp = NoResp
  /\ ret = NoSync
  /\ lastInit = NoInit
  /\ InitMLVars
  /\ InitRAGVars
  /\ InitRest

streamFrame == UNCHANGED <<syncVars, ragVars, quarterVars, agentVars>>

mlFrame == UNCHANGED <<query, columns, cache, mlRun, detected, answered>>

\* ask_agent_stream when system.agent is None: the attribute error is caught
\* by generate, whose only event is the error.
StreamNoAgent(r) ==
  /\ pc[r] = "idle"
  /\ ~system.agent
  /\ events' = [events EXCEPT ![r] =
                  <<Event("error", "'NoneType' object has no attribute 'query_stream'", <<>>)>>]
  /\ pc' = [pc EXCEPT ![r] = "closed"]
  /\ UNCHANGED <<pending, calls, last_tool_status, accumulated_text, called,
                 invoked, writer, erased, tool_usage>>
  /\ mlFrame
  /\ streamFrame

\* query_stream up to the first event of astream: reset_tool_usage().
StreamBegin(r) ==
  /\ pc[r] = "idle"
  /\ system.agent
  /\ pc' = [pc EXCEPT ![r] = "model"]
  /\ tool_usage' = DEFAULT_MESSAGE
  /\ writer' = None
  /\ erased' = IF writer \in Requests \ {r} /\ pc[writer] = "deliver"
               THEN erased \cup {writer}
               ELSE erased
  /\ UNCHANGED <<pending, calls, last_tool_status, accumulated_text, events,
                 called, invoked>>
  /\ mlFrame
  /\ streamFrame

\* astream gives the agent node's AI message, with or without a tool call:
\* the status check, the status of the tool call, the content.
ModelEvent(r) ==
  /\ pc[r] = "model"
  /\ \E content \in Contents, call \in StreamTools \cup {None} :
       LET s == check_tool_status(r)
           c == extract_content(accumulated_text[r], content)
       IN /\ call # None => calls["A"] + calls["B"] < MaxStreamCalls
          /\ last_tool_status' = [last_tool_status EXCEPT ![r] = s.last]
          /\ accumulated_text' = [accumulated_text EXCEPT ![r] = c.accumulated]
          /\ events' = [events EXCEPT ![r] =
                          @ \o s.events
                            \o (IF call # None
                                THEN <<Event("status", tool_status_map(call), <<>>)>>
                                ELSE <<>>)
                            \o c.events]
          /\ pending' = [pending EXCEPT ![r] = call]
          /\ called' = [called EXCEPT ![r] = IF call # None THEN @ \cup {call} ELSE @]
          /\ calls' = [calls EXCEPT ![r] = IF call # None THEN @ + 1 ELSE @]
          /\ pc' = [pc EXCEPT ![r] = IF call # None THEN "tool" ELSE "end"]
  /\ UNCHANGED <<invoked, writer, erased, tool_usage>>
  /\ mlFrame
  /\ streamFrame

\* The tools node runs the tool that was called: its run records the usage.
ToolRun(r) ==
  /\ pc[r] = "tool"
  /\ tool_usage' = usage_message(pending[r])
  /\ writer' = r
  /\ invoked' = [invoked EXCEPT ![r] = @ \cup {pending[r]}]
  /\ pc' = [pc EXCEPT ![r] = "deliver"]
  /\ UNCHANGED <<pending, calls, last_tool_status, accumulated_text, events,
                 called, erased>>
  /\ mlFrame
  /\ streamFrame

\* astream gives the tools node's message: the status check; a tool message
\* has no tool calls and its content is skipped.
ToolEvent(r) ==
  /\ pc[r] = "deliver"
  /\ LET s == check_tool_status(r)
     IN /\ last_tool_status' = [last_tool_status EXCEPT ![r] = s.last]
        /\ events' = [events EXCEPT ![r] = @ \o s.events]
  /\ pending' = [pending EXCEPT ![r] = None]
  /\ pc' = [pc EXCEPT ![r] = "model"]
  /\ UNCHANGED <<calls, accumulated_text, called, invoked, writer, erased,
                 tool_usage>>
  /\ mlFrame
  /\ streamFrame

\* astream raises instead of giving the next event.
AstreamFail(r) ==
  /\ pc[r] \in {"model", "deliver"}
  /\ events' = [events EXCEPT ![r] = query_stream_except(@, accumulated_text[r])]
  /\ pc' = [pc EXCEPT ![r] = "closed"]
  /\ UNCHANGED <<pending, calls, last_tool_status, accumulated_text, called,
                 invoked, writer, erased, tool_usage>>
  /\ mlFrame
  /\ streamFrame

\* astream is exhausted: the fallback agent.invoke when nothing was
\* accumulated (it may run a tool, raise, or give a message without content,
\* whose .get is an attribute error for a message object and '' for a dict),
\* then the done event.
StreamEnd(r) ==
  /\ pc[r] = "end"
  /\ pc' = [pc EXCEPT ![r] = "closed"]
  /\ IF accumulated_text[r] # <<>>
     THEN /\ events' = [events EXCEPT ![r] =
                          Append(@, Event("done", "", accumulated_text[r]))]
          /\ UNCHANGED <<accumulated_text, invoked, writer, tool_usage>>
     ELSE \E tool \in StreamTools \cup {None}, content \in Contents,
             fails \in BOOLEAN :
            /\ IF tool # None
               THEN /\ tool_usage' = usage_message(tool)
                    /\ writer' = r
                    /\ invoked' = [invoked EXCEPT ![r] = @ \cup {tool}]
               ELSE UNCHANGED <<invoked, writer, tool_usage>>
            /\ IF fails
               THEN /\ events' = [events EXCEPT ![r] =
                                    query_stream_except(@, accumulated_text[r])]
                    /\ UNCHANGED accumulated_text
               ELSE /\ accumulated_text' = [accumulated_text EXCEPT ![r] = content]
                    /\ events' = [events EXCEPT ![r] =
                                    @ \o (IF content # <<>>
                                          THEN <<Event("content", "", content)>>
                                          ELSE <<>>)
                                      \o <<Event("done", "", content)>>]
  /\ UNCHANGED <<pending, calls, last_tool_status, called, erased>>
  /\ mlFrame
  /\ streamFrame

NextStream ==
  \E r \in Requests :
    \/ StreamNoAgent(r)
    \/ StreamBegin(r)
    \/ ModelEvent(r)
    \/ ToolRun(r)
    \/ ToolEvent(r)
    \/ AstreamFail(r)
    \/ StreamEnd(r)

SpecStream == InitStream /\ [][NextStream]_vars

----------------------------------------------------------------------------
(* The quarter of one row in the table and in its document *)

InitQuarter ==
  /\ InitSync
  /\ InitMLVars
  /\ InitRAGVars
  /\ week_cell \in WeekValues
  /\ quarters = NoQuarters
  /\ InitAgentVars
  /\ InitStreamVars

\* DataLoader.initialize on the row: create_duckdb, then create_embeddings
\* unless create_duckdb raised.
LoadRow ==
  LET t == table_quarter(week_cell)
  IN /\ quarters' =
          [called |-> TRUE, table |-> t,
           metadata |-> IF t.raised THEN <<>>
                        ELSE prepare_metadata([Week |-> week_cell, Region |-> "North"], 0)]
     /\ UNCHANGED week_cell
     /\ UNCHANGED <<syncVars, mlVars, ragVars, agentVars, streamVars>>

\* _prepare_metadata(row, index), called on its own.
PrepareMetadata ==
  /\ quarters' =
       [called |-> TRUE, table |-> NoQuarters.table,
        metadata |-> prepare_metadata([Week |-> week_cell, Region |-> "North"], 0)]
  /\ UNCHANGED week_cell
  /\ UNCHANGED <<syncVars, mlVars, ragVars, agentVars, streamVars>>

NextQuarter == LoadRow \/ PrepareMetadata

SpecQuarter == InitQuarter /\ [][NextQuarter]_vars

----------------------------------------------------------------------------
(* The sync / rebuild pipeline: claims *)

\* C1 (as stated): whenever the process serves (startup completed, the
\* system's agent is set), the system's table and its vector index were
\* built from the same file, the one current_csv_path names.
C1_TableAndIndexFromCurrentFile ==
  (up /\ system.agent) =>
    /\ system.conn = system.vectorstore
    /\ system.conn.name = current_csv_path

\* The newest remote CSV of a store, as the claim words it: a file that is
\* no directory, whose name ends in .csv whatever the case, and that no
\* other such file is newer than.
is_remote_csv(st, p) == st[p] > 0 /\ ~p.is_directory /\ p.ext \in {"csv", "CSV"}

\* C2: with remote storage configured and a remote CSV listed,
\* sync_latest_file takes the newest remote CSV for the latest file; it
\* returns is_new = TRUE exactly when that file's basename was not in the
\* local directory and the file was downloaded; when the basename was there
\* it returns (that local path, FALSE) and the directory is as it was.
C2_IsNewIffDownloaded ==
  /\ \A st \in Stores :
       LET l == list_csv_files(TRUE, st)
       IN /\ (l = <<>>) <=> ~(\E p \in RemotePaths : is_remote_csv(st, p))
          /\ l # <<>> =>
               /\ is_remote_csv(st, l[1].name)
               /\ \A p \in RemotePaths : is_remote_csv(st, p) => st[p] <= st[l[1].name]
  /\ (ret.called /\ ret.connected /\ ret.latest # NoPath /\ ~ret.raised) =>
       LET n == basename(ret.latest)
       IN /\ ret.is_new <=> (/\ ~exists(ret.before, n)
                             /\ LocalFile(n, ret.latest, TRUE) \in local)
          /\ exists(ret.before, n) =>
               /\ ret.path = n
               /\ ~ret.is_new
               /\ local = ret.before

C2_Witness ==
  /\ ret.called /\ ret.connected /\ ret.is_new
  /\ ret.before # {}
  /\ ~exists(ret.before, basename(ret.latest))

C4_ReplacedIffNew ==
  [][ resp'.code # 0 =>
        /\ (system' # system \/ current_csv_path' # current_csv_path) => ret'.is_new
        /\ ret'.is_new =>
             /\ system'.id # system.id
             /\ system'.force_rebuild
             /\ system'.csv_path = ret'.path
             /\ current_csv_path' = ret'.path
        /\ (~ret'.raised /\ ret'.path # NoName /\ ~ret'.is_new) =>
             /\ system' = system
             /\ current_csv_path' = current_csv_path
             /\ resp'.code = 200
             /\ resp'.message = "No new file detected. System remains unchanged."
    ]_vars

C4_Witness ==
  /\ resp.code = 200
  /\ ret.is_new
  /\ system.force_rebuild /\ system.agent
  /\ current_csv_path = ret.path
  /\ system.id > 1

\* C5: a DataLoader.initialize call that returns has recreated the table
\* from the source file; it has embedded the rows again and saved the index
\* when force_rebuild was set or no index was persisted, and otherwise has
\* loaded the persisted index as it was, embedding nothing.
C5_TableAlwaysIndexWhenForced ==
  (lastInit.called /\ ~lastInit.raised) =>
    /\ lastInit.csv # NoFile
    /\ lastInit.table = lastInit.csv
    /\ IF lastInit.force_rebuild \/ lastInit.persisted = NoData
       THEN /\ lastInit.embedded /\ ~lastInit.loaded
            /\ lastInit.vectorstore = lastInit.csv
            /\ faiss = lastInit.csv
       ELSE /\ ~lastInit.embedded /\ lastInit.loaded
            /\ lastInit.vectorstore = lastInit.persisted
            /\ faiss = lastInit.persisted

C5_Witness ==
  /\ lastInit.called /\ ~lastInit.raised
  /\ lastInit.loaded
  /\ lastInit.persisted # NoData
  /\ ~lastInit.force_rebuild

----------------------------------------------------------------------------
(* MLTool: classification and target detection *)

\* The two word lists as the claims give them.
prediction_words ==
  { <<"p", "r", "e", "d", "i", "c", "t">>,
    <<"f", "o", "r", "e", "c", "a", "s", "t">>,
    <<"w", "h", "a", "t", " ", "w", "o", "u", "l", "d">>,
    <<"w", "h", "a", "t", " ", "w", "i", "l", "l">>,
    <<"e", "x", "p", "e", "c", "t", "e", "d">> }

simple_words ==
  { <<"a", "v", "e", "r", "a", "g", "e">>,
    <<"m", "e", "a", "n">>,
    <<"t", "y", "p", "i", "c", "a", "l">>,
    <<"u", "s", "u", "a", "l">>,
    <<"n", "o", "r", "m", "a", "l">>,
    <<"s", "i", "m", "i", "l", "a", "r", " ", "t", "o">>,
    <<"l", "i", "k", "e">>,
    <<"c", "o", "m", "p", "a", "r", "a", "b", "l", "e">>,
    <<"h", "i", "s", "t", "o", "r", "i", "c", "a", "l">> }

\* Case-insensitive substring matching of a word list against the question.
matches_any(words) ==
  LET query_lower == lower(query)
  IN \E w \in words : contains(query_lower, w)

\* C6: a question with a prediction keyword and no simple keyword is
\* classified complex, one with a simple keyword and no prediction keyword
\* is classified simple; keywords match as case-insensitive substrings.
C6_KeywordClassification ==
  mlRun.classified =>
    /\ (matches_any(prediction_words) /\ ~matches_any(simple_words))
         => ~mlRun.is_simple
    /\ (matches_any(simple_words) /\ ~matches_any(prediction_words))
         => mlRun.is_simple

\* A question classified simple on a keyword it holds in another case.
C6_Witness ==
  /\ mlRun.classified
  /\ mlRun.is_simple
  /\ matches_any(simple_words)
  /\ ~(\E w \in simple_words : contains(query, w))

ambiguous ==
  matches_any(prediction_words) <=> matches_any(simple_words)

\* C7 as stated: an ambiguous question (keywords of both lists or of
\* neither) is classified simple, answered by the statistical path, and no
\* model is trained.
C7_AmbiguousDefaultsToSimple ==
  (mlRun.classified /\ ambiguous) =>
    /\ mlRun.is_simple
    /\ mlRun.path = "statistical"
    /\ ~mlRun.trained

\* C7 as the code has it: an ambiguous question is classified complex; run
\* takes the training path when a target variable is detected, which it is
\* whenever a fallback column is in the data, and the statistical path only
\* when none is.
C7_AmbiguousIsComplex ==
  (mlRun.classified /\ ambiguous) =>
    /\ ~mlRun.is_simple
    /\ mlRun.path = (IF mlRun.target_var = None THEN "statistical" ELSE "ml")
    /\ (\E i \in 1..Len(fallback_order) : fallback_order[i] \in columns)
         => mlRun.path = "ml"
    /\ mlRun.trained => mlRun.path = "ml"

\* A question with keywords of both lists for which a model was trained.
C7_Witness ==
  /\ mlRun.classified
  /\ matches_any(prediction_words)
  /\ matches_any(simple_words)
  /\ mlRun.trained

\* Group g is matched by the question and has a column in the data.
group_applies(g) ==
  /\ \E i \in 1..Len(target_preferences[g].columns) :
       target_preferences[g].columns[i] \in columns
  /\ LET query_lower == lower(query)
     IN \E i \in 1..Len(target_preferences[g].keywords) :
          contains(query_lower, target_preferences[g].keywords[i])

\* c is the first column of cols that is in the data.
is_first_present(c, cols) ==
  \E i \in 1..Len(cols) :
    /\ cols[i] = c
    /\ c \in columns
    /\ \A j \in 1..(i - 1) : cols[j] \notin columns

\* C8: _detect_target_variable returns the first present column of the first
\* group, in priority order, that the question matches and that has a column
\* in the data; with no such group the first present column of the fallback
\* order; None only when there is neither.  The result is a column of the
\* data or None.
C8_TargetVariable ==
  detected # "unset" =>
    /\ detected \in columns \cup {None}
    /\ \A g \in 1..Len(target_preferences) :
         (group_applies(g) /\ \A h \in 1..(g - 1) : ~group_applies(h))
           => is_first_present(detected, target_preferences[g].columns)
    /\ (\A g \in 1..Len(target_preferences) : ~group_applies(g))
         => \/ is_first_present(detected, fallback_order)
            \/ /\ detected = None
               /\ \A i \in 1..Len(fallback_order) : fallback_order[i] \notin columns
    /\ detected = None =>
         /\ \A g \in 1..Len(target_preferences) : ~group_applies(g)
         /\ \A i \in 1..Len(fallback_order) : fallback_order[i] \notin columns

\* The question matches a group without a column in the data and then a
\* later group with one, whose column is returned although the data has
\* fallback columns that come first.
C8_Witness ==
  /\ detected = "Gross_Profit"
  /\ contains(lower(query), <<"r", "o", "i">>)
  /\ "ROI%" \notin columns
  /\ "Actual_Promo_Sales_Value_Uplift_%" \in columns

----------------------------------------------------------------------------
(* RAGTool.search_with_filters *)

\* C9 as stated: with filters, 3*k candidates are fetched and every returned
\* document has, for every filter field, exactly the filter's value.
C9_ReturnedDocsMatchFilters ==
  (lastSearch.called /\ DOMAIN lastSearch.filters # {}) =>
    /\ lastSearch.requested = 3 * lastSearch.k
    /\ \A i \in 1..Len(lastSearch.docs) :
         \A key \in DOMAIN lastSearch.filters :
           /\ key \in DOMAIN lastSearch.docs[i].metadata
           /\ lastSearch.docs[i].metadata[key] = lastSearch.filters[key]

min(a, b) == IF a < b THEN a ELSE b

\* The candidates that pass the filter, in their order.
passing == SelectSeq(lastSearch.all_docs, LAMBDA doc : match(doc, lastSearch.filters))

\* C10: at most k documents are returned; with filters they are the first k
\* candidates that pass the filter, in the candidates' order; without
\* filters they are the k most similar documents as the index gave them.
C10_FirstKInOrder ==
  lastSearch.called =>
    /\ Len(lastSearch.docs) <= lastSearch.k
    /\ lastSearch.all_docs =
         SubSeq(rag_vectorstore, 1, min(lastSearch.requested, Len(rag_vectorstore)))
    /\ DOMAIN lastSearch.filters # {} =>
         lastSearch.docs = SubSeq(passing, 1, min(lastSearch.k, Len(passing)))
    /\ DOMAIN lastSearch.filters = {} =>
         lastSearch.docs = SubSeq(rag_vectorstore, 1, min(lastSearch.k, Len(rag_vectorstore)))

\* A filtered search in which more than k candidates pass and a candidate
\* that does not pass comes before a returned one.
C10_Witness ==
  /\ lastSearch.called
  /\ DOMAIN lastSearch.filters # {}
  /\ Len(passing) > lastSearch.k
  /\ Len(lastSearch.docs) = lastSearch.k
  /\ ~match(lastSearch.all_docs[1], lastSearch.filters)

----------------------------------------------------------------------------
(* POST /admin/sync-data without any file *)

\* C18 as stated: when the sync yields no local path the response is 404
\* with the detail 'No CSV file found in ADLS or locally.', and 500 is kept
\* for the other failures.
C18_NoFileIs404 ==
  (resp.code # 0 /\ ret.called /\ ~ret.raised /\ ret.path = NoName) =>
    /\ resp.code = 404
    /\ resp.message = "No CSV file found in ADLS or locally."

----------------------------------------------------------------------------
(* Quarter of a week *)

\* The quarter of week n by the four ranges of thirteen weeks.
quarter_of_week(n) ==
  IF \E q \in 1..4 : 13 * (q - 1) < n /\ n <= 13 * q
  THEN <<"Q1", "Q2", "Q3", "Q4">>[CHOOSE q \in 1..4 : 13 * (q - 1) < n /\ n <= 13 * q]
  ELSE "Unknown"

\* C19: for an ISO week in 1..52 the table's Quarter and the document's
\* Quarter metadata are the same quarter, the one of the four ranges the week
\* lies in; for week 53 or a missing week the table holds 'Unknown' and the
\* metadata has no Quarter field.
C19_SameQuarterInTableAndMetadata ==
  (quarters.called /\ ~quarters.table.raised /\ quarters.table.Quarter # None) =>
    LET n == IF week_cell.kind = "date" THEN week_cell.n ELSE 0
        q == quarter_of_week(n)
    IN /\ quarters.table.Quarter = q
       /\ q # "Unknown" =>
            /\ "Quarter" \in DOMAIN quarters.metadata
            /\ quarters.metadata["Quarter"] = q
       /\ q = "Unknown" => "Quarter" \notin DOMAIN quarters.metadata

\* A row of ISO week 53: 'Unknown' in the table, no Quarter in the metadata.
C19_Witness ==
  /\ quarters.called
  /\ week_cell = WeekValue("date", 53)
  /\ quarters.table.Quarter = "Unknown"
  /\ "Quarter" \notin DOMAIN quarters.metadata

----------------------------------------------------------------------------
(* The ML cache *)

\* C13 as stated: a run on a query an earlier run completed on returns the
\* text the earlier run returned, from the cache.
C13_RepeatReturnsEarlierText ==
  [][ (mlRun'.called /\ query' \in DOMAIN answered) =>
        (mlRun'.hit /\ mlRun'.result = answered[query']) ]_vars

\* C13 as the code has it: a run on a query whose earlier run did not end
\* in the except clause returns that run's text from the cache, classifying
\* nothing and training nothing; a run answers from the cache only then, so
\* a query spelt differently is computed afresh.
C13_RepeatReturnsCachedText ==
  [][ mlRun'.called =>
        /\ (/\ query' \in DOMAIN answered
            /\ answered[query'].text # "Error during ML prediction")
             => /\ mlRun'.hit
                /\ mlRun'.result = answered[query']
                /\ ~mlRun'.classified
                /\ ~mlRun'.trained
                /\ mlRun'.path = "cache"
        /\ mlRun'.hit =>
             /\ query' \in DOMAIN answered
             /\ answered[query'].text # "Error during ML prediction" ]_vars

\* A run answered from the cache while the other spelling was answered too.
C13_Witness ==
  /\ mlRun.hit
  /\ mlRun.result.text = "ML PREDICTION RESULTS"
  /\ \A q \in CacheQuestions : q \in DOMAIN answered

\* C14: but for a process restart no step removes or changes a cache entry,
\* a rebuild from a new file included.
C14_EntriesStayUntilRestart ==
  [][ (up => up') =>
        \A k \in DOMAIN cache : k \in DOMAIN cache' /\ cache'[k] = cache[k] ]_vars

\* After a rebuild a question is answered from the cache with the text
\* computed from the file the system no longer serves.
C14_Witness ==
  /\ up
  /\ system.agent
  /\ mlRun.hit
  /\ mlRun.result.data # NoName
  /\ mlRun.result.data # system.df.name
  /\ system.df.name = current_csv_path

----------------------------------------------------------------------------
(* The tool-usage flag, the tool boundaries and the agent's query *)

\* C11: with one query at a time, the flag is the default from the start of
\* a query until a tool is invoked and then, up to and after the end of the
\* query, the message of the tool invoked last; a tool has recorded itself
\* when its call ends, whether it answered, failed or answered from the cache.
C11_FlagNamesLastTool ==
  /\ (phase = "running" \/ answer.returned) =>
       tool_usage = IF toolsRun = <<>>
                    THEN "INCUBATOR RESPONSE (NO TOOL USED)"
                    ELSE usage_message(toolsRun[Len(toolsRun)])
  /\ lastTool.called =>
       /\ toolsRun # <<>>
       /\ toolsRun[Len(toolsRun)] = lastTool.tool
       /\ tool_usage = usage_message(lastTool.tool)

\* The ML tool, invoked after the SQL tool, answered from the cache and the
\* flag names it.
C11_Witness ==
  /\ lastTool.called
  /\ mlRun.hit
  /\ toolsRun = <<"SQL", "ML">>
  /\ tool_usage = "ML TOOL USED"

\* The texts a tool returns.
tool_texts(tool) ==
  CASE tool = "SQL" -> {"No results found.", "Results (n rows)",
                        "Error executing SQL query"}
    [] tool = "RAG" -> {"No relevant results found for your query.",
                        "interpretation", "Error during semantic search"}
    [] tool = "ML"  -> {"STATISTICAL ANALYSIS", "ML PREDICTION RESULTS",
                        "Error: AutoML library (FLAML) not installed.",
                        "Error during ML training. Falling back to statistical analysis...",
                        "Error during ML prediction"}

\* C15: no tool call raises; each returns a text, and an exception inside
\* the tool comes back as the tool's error text.
C15_ToolsNeverRaise ==
  lastTool.called =>
    /\ ~lastTool.raised
    /\ lastTool.text \in tool_texts(lastTool.tool)
    /\ lastTool.sql.raised => lastTool.text = "Error executing SQL query"

\* A search that failed, returned as the error text of the RAG tool.
C15_Witness ==
  /\ lastTool.called
  /\ lastTool.tool = "RAG"
  /\ ~lastTool.raised
  /\ lastTool.text = "Error during semantic search"

\* C16: execute_sql is attempted at most 5 times; the first attempt that
\* succeeds ends the call; when all 5 fail the exception is re-raised and run
\* returns its error text; the n-th failure but the last is followed by a
\* wait of delay * 2^(n-1), the last by none; None is never returned.
C16_AtMostFiveAttempts ==
  (lastTool.called /\ lastTool.tool = "SQL" /\ lastTool.sql.attempts > 0) =>
    LET x == lastTool.sql
    IN /\ x.attempts <= 5
       /\ x.failing < 5 =>
            /\ ~x.raised
            /\ x.returned = "result"
            /\ x.attempts = x.failing + 1
            /\ lastTool.text # "Error executing SQL query"
       /\ x.failing >= 5 =>
            /\ x.raised
            /\ x.attempts = 5
            /\ lastTool.text = "Error executing SQL query"
       /\ ~(~x.raised /\ x.returned = None)
       /\ Len(x.waits) = x.attempts - 1
       /\ \A n \in 1..Len(x.waits) : x.waits[n] = 2 ^ (n - 1)

\* Every attempt failed: five attempts, waits of 1, 2, 4 and 8 seconds.
C16_Witness ==
  /\ lastTool.called
  /\ lastTool.tool = "SQL"
  /\ lastTool.sql.raised
  /\ lastTool.sql.failing > 5
  /\ lastTool.sql.attempts = 5
  /\ lastTool.sql.waits = <<1, 2, 4, 8>>

\* C20: query never raises; it returns a text as output and no intermediate
\* steps, and the text is 'Error: Agent execution error: ...' when the
\* agent's run failed.
C20_QueryNeverRaises ==
  (answer.returned /\ request = "query") =>
    /\ ~answer.raised
    /\ answer.output # None
    /\ answer.intermediate_steps = <<>>
    /\ answer.failed => answer.output = "Error: Agent execution error"

\* A query whose agent run failed after a tool had run.
C20_Witness ==
  /\ answer.returned
  /\ request = "query"
  /\ answer.failed
  /\ toolsRun # <<>>
  /\ answer.output = "Error: Agent execution error"

----------------------------------------------------------------------------
(* Streamed queries *)

\* The request handled an event of astream in this step.
took_event(r) ==
  \/ pc[r] = "model" /\ pc'[r] \in {"tool", "end"}
  \/ pc[r] = "deliver" /\ pc'[r] = "model"

\* C12: the flag is not isolated between requests: whenever a streamed
\* request handles an event, the status it emits and remembers is the one
\* value of the process-wide flag, whichever request's tool or reset wrote it.
C12_StatusFollowsSharedFlag ==
  [][\A r \in Requests :
       took_event(r) =>
         IF tool_usage \notin {"INCUBATOR RESPONSE (NO TOOL USED)", last_tool_status[r]}
         THEN /\ last_tool_status'[r] = tool_usage
              /\ Len(events'[r]) > Len(events[r])
              /\ events'[r][Len(events[r]) + 1] =
                   Event("status", status_messages(tool_usage), <<>>)
         ELSE last_tool_status'[r] = last_tool_status[r]]_vars

\* B's reset erased the SQL usage recorded for A before A read it, and A then
\* emitted the status of the ML tool, which only B's agent called and ran.
C12_Witness ==
  /\ "A" \in erased
  /\ "ML" \notin called["A"]
  /\ "ML" \in invoked["B"]
  /\ called["A"] = {"SQL"}
  /\ last_tool_status["A"] = "ML TOOL USED"
  /\ \E i \in 1..Len(events["A"]) :
       events["A"][i] = Event("status", status_messages("ML TOOL USED"), <<>>)

\* C17: a streamed response carries only status, content, done and error
\* events; a done or error event is the last one, and a response that has
\* ended ends with one, so it has exactly one of the two.
C17_OneTerminalEvent ==
  \A r \in Requests :
    /\ \A i \in 1..Len(events[r]) :
         /\ events[r][i].type \in {"status", "content", "done", "error"}
         /\ events[r][i].type \in {"done", "error"} =>
              (i = Len(events[r]) /\ pc[r] = "closed")
    /\ pc[r] = "closed" =>
         /\ events[r] # <<>>
         /\ events[r][Len(events[r])].type \in {"done", "error"}

\* One response ended with an error after status and content events, the
\* other with done.
C17_Witness ==
  /\ pc["A"] = "closed"
  /\ pc["B"] = "closed"
  /\ events["A"][Len(events["A"])].type = "error"
  /\ \E i \in 1..Len(events["A"]) : events["A"][i].type = "content"
  /\ \E i \in 1..Len(events["A"]) : events["A"][i].type = "status"
  /\ events["B"][Len(events["B"])].type = "done"

----------------------------------------------------------------------------
(* MLTool.run: failures, the cache and the two paths *)

\* C21: a call on the complex path whose training or prediction failed
\* returns the text of the statistical path.
C21_TrainingFailureFallsBack ==
  (/\ mlRun.called
   /\ ~mlRun.hit
   /\ mlRun.path = "ml"
   /\ ~mlRun.trained
   /\ mlRun.result.text # "Error: AutoML library (FLAML) not installed.") =>
    mlRun.result.text = "STATISTICAL ANALYSIS"

\* C22: the cache maps a query only to a successfully computed answer.
C22_OnlyAnswersCached ==
  \A k \in DOMAIN cache :
    cache[k].text \in {"STATISTICAL ANALYSIS", "ML PREDICTION RESULTS"}

\* The target columns _detect_target_variable knows.
known_target_columns ==
  UNION {{target_preferences[g].columns[i] :
            i \in 1..Len(target_preferences[g].columns)} :
         g \in 1..Len(target_preferences)}
  \cup {fallback_order[i] : i \in 1..Len(fallback_order)}

\* C23 as stated: every uncached call runs exactly one of the two paths.
C23_EveryUncachedCallRunsOnePath ==
  (mlRun.called /\ ~mlRun.hit) => mlRun.path \in {"statistical", "ml"}

\* C23: an uncached call that got past scenario extraction runs exactly one
\* of the two paths, the model path exactly when the question is complex and
\* a target variable was detected; a model is trained on no other path, and
\* a complex question over data without any known target column is answered
\* by the statistical path.  A call that failed in scenario extraction runs
\* neither.
C23_TrainsOnlyComplexWithTarget ==
  (mlRun.called /\ ~mlRun.hit) =>
    /\ mlRun.classified =>
         /\ mlRun.path \in {"statistical", "ml"}
         /\ mlRun.path = "ml" <=>
              (~is_simple_query(query) /\ detect_target_variable(query, columns) # None)
         /\ (columns \cap known_target_columns = {}) => mlRun.path = "statistical"
         /\ mlRun.path = "statistical" =>
              mlRun.result.text \in {"STATISTICAL ANALYSIS", "Error during ML prediction"}
    /\ mlRun.trained => (mlRun.classified /\ mlRun.path = "ml")
    /\ ~mlRun.classified =>
         (mlRun.path = "none" /\ mlRun.result.text = "Error during ML prediction")

\* A complex question over data with no known target column, answered by the
\* statistical path.
C23_Witness ==
  /\ mlRun.called
  /\ ~mlRun.hit
  /\ mlRun.classified
  /\ ~is_simple_query(query)
  /\ columns \cap known_target_columns = {}
  /\ mlRun.path = "statistical"
  /\ mlRun.result.text = "STATISTICAL ANALYSIS"

----------------------------------------------------------------------------
(* parse_date_filter *)

Digits == <<"1", "2", "3", "4">>

Ordinals ==
  << <<"f", "i", "r", "s", "t">>, <<"s", "e", "c", "o", "n", "d">>,
     <<"t", "h", "i", "r", "d">>, <<"f", "o", "u", "r", "t", "h">> >>

QuarterWord == <<"q", "u", "a", "r", "t", "e", "r">>

\* The text mentions quarter n: qn, quarter n or the ordinal, in any case.
mentions(text, n) ==
  \/ contains(lower(text), <<"q", Digits[n]>>)
  \/ contains(lower(text), QuarterWord \o <<" ", Digits[n]>>)
  \/ contains(lower(text), Ordinals[n] \o <<" ">> \o QuarterWord)

quarter_label(n) ==
  CASE n = 1 -> "Q1" [] n = 2 -> "Q2" [] n = 3 -> "Q3" [] n = 4 -> "Q4"

\* C24: the filter parsed from a question is empty when the question
\* mentions no quarter, and otherwise has the one key Quarter, whose value is
\* the lowest-numbered quarter the question mentions, wherever it stands.
C24_LowestMentionedQuarter ==
  lastSearch.called =>
    LET mentioned == {n \in 1..4 : mentions(query, n)}
    IN /\ mentioned = {} => lastSearch.filters = <<>>
       /\ mentioned # {} =>
            /\ DOMAIN lastSearch.filters = {"Quarter"}
            /\ lastSearch.filters["Quarter"] =
                 quarter_label(CHOOSE n \in mentioned : \A m \in mentioned : n <= m)

\* 'Q3 similar q1' is filtered to Q1.
C24_Witness ==
  /\ lastSearch.called
  /\ query = <<"Q", "3", " ", "s", "i", "m", "i", "l", "a", "r", " ", "q", "1">>
  /\ lastSearch.filters = ("Quarter" :> "Q1")

----------------------------------------------------------------------------
(* The content of a streamed response *)

RECURSIVE content_sent(_)
\* The payloads of the content events of a response, concatenated in order.
content_sent(evs) ==
  IF evs = <<>> THEN <<>>
  ELSE (IF Head(evs).type = "content" THEN Head(evs).content ELSE <<>>)
       \o content_sent(Tail(evs))

\* C25: in a response that ended with done, the payloads of the content
\* events, concatenated in order, are the content of the done event.
C25_ContentAddsUpToDone ==
  \A r \in Requests :
    (pc[r] = "closed" /\ events[r][Len(events[r])].type = "done") =>
      content_sent(events[r]) = events[r][Len(events[r])].content

\* C26: no content event and no done event carries text that starts with
\* 'Results ('.
C26_NoToolOutputInContent ==
  \A r \in Requests :
    \A i \in 1..Len(events[r]) :
      events[r][i].type \in {"content", "done"} =>
        ~startswith(events[r][i].content, ResultsPrefix)

----------------------------------------------------------------------------
(* Failed downloads *)

\* C27 as stated: a sync whose download failed returns no path and leaves
\* the directory without any of the CSV files it held before.
C27_OldCsvsGoneAfterFailure ==
  (ret.called /\ ret.raised) =>
    /\ ret.path = NoName
    /\ \A f \in glob_csv(ret.before) : f \notin ret.after

\* C27: a sync whose download failed returns no path and reports no new
\* file; of the files matching *.csv that the directory held before, those
\* whose removal succeeded are gone and are not restored, those whose removal
\* failed are still there; no other file is removed, and at most the
\* partly written new file is added.
C27_RemovedCsvsNotRestored ==
  (ret.called /\ ret.raised) =>
    LET n == basename(ret.latest)
    IN /\ ret.path = NoName
       /\ ~ret.is_new
       /\ ret.connected
       /\ ~exists(ret.before, n)
       /\ local = ret.after
       /\ ret.unremoved \subseteq glob_csv(ret.before)
       /\ \A f \in glob_csv(ret.before) : f \in ret.after <=> f \in ret.unremoved
       /\ \A f \in ret.before \ glob_csv(ret.before) : f \in ret.after
       /\ ret.after \ ret.before \subseteq {LocalFile(n, ret.latest, FALSE)}

\* The download was refused after the only local CSV had been deleted: the
\* directory holds no CSV.
C27_Witness ==
  /\ ret.called
  /\ ret.raised
  /\ glob_csv(ret.before) # {}
  /\ ret.unremoved = {}
  /\ glob_csv(local) = {}

\* C28: a sync that finds the partly written local copy of the newest
\* remote file downloads the file again and reports it as new.
C28_PartialFileDownloadedAgain ==
  (/\ ret.called
   /\ ret.connected
   /\ ret.latest # NoPath
   /\ LocalFile(basename(ret.latest), ret.latest, FALSE) \in ret.before) =>
    \/ ret.raised
    \/ /\ ret.is_new
       /\ LocalFile(basename(ret.latest), ret.latest, TRUE) \in ret.after

----------------------------------------------------------------------------
(* The global system and syncs without a remote file *)

\* C29: once the process is up, the global system has its agent.
C29_SystemAlwaysInitialized ==
  up => system.agent

\* C30: a sync without configured storage, or with an empty or failed
\* listing, raises nothing, reports no new file and leaves the directory as
\* it was; without storage it returns a local file matching *.csv when there
\* is one and no path otherwise; with storage it returns no path whatever
\* the directory holds.  A startup after such a sync does not force a
\* rebuild, and uses the default path when no path was returned.
C30_NoRemoteFileNoRebuild ==
  (ret.called /\ ret.latest = NoPath) =>
    /\ ~ret.raised
    /\ ~ret.is_new
    /\ ret.after = ret.before
    /\ local = ret.before
    /\ ret.unremoved = {}
    /\ IF ret.connected
       THEN ret.path = NoName
       ELSE /\ glob_csv(ret.before) = {} => ret.path = NoName
            /\ glob_csv(ret.before) # {} =>
                 \E f \in glob_csv(ret.before) : ret.path = f.name
    /\ lastInit.called => ~lastInit.force_rebuild
    /\ (resp.code = 0 /\ lastInit.called) =>
         lastInit.csv = file_at(local, IF ret.path = NoName
                                       THEN DefaultCsvPath ELSE ret.path)
    /\ (resp.code = 0 /\ up) =>
         /\ ~system.force_rebuild
         /\ system.csv_path = (IF ret.path = NoName THEN DefaultCsvPath ELSE ret.path)
         /\ current_csv_path = system.csv_path

\* Storage is configured and lists nothing; the directory holds CSV files,
\* none is looked at, and the process came up on the default path.
C30_Witness ==
  /\ ret.called
  /\ ret.connected
  /\ ret.latest = NoPath
  /\ Cardinality(glob_csv(ret.before)) > 1
  /\ ret.path = NoName
  /\ resp.code = 0
  /\ up
  /\ current_csv_path = DefaultCsvPath

====
